---------------------------- MODULE Spec2Model ----------------------------
(***************************************************************************)
(* The medicine listing pipeline of Cure-Link:                             *)
(*   GET /api/medicines = authenticate.optional, base filter, search,      *)
(*   paginate, getAllMedicines, with the global error handler behind it.   *)
(* and the pharmacy-only routes of the same router behind authenticate and *)
(* authorize(['pharmacy']).                                                *)
(* One request travels through the chain; pc names the handler that runs   *)
(* next.  Query values are kept as the raw strings Express hands over and  *)
(* are converted by parseInt / parseFloat as the middleware does.          *)
(*                                                                         *)
(* Numbers: coordinates are fixed-point degrees (unit 1/100000 degree), a   *)
(* raw distance is in metres, a stored distance is in 1/100 km (the two    *)
(* decimals kept by toFixed(2)).                                           *)
(***************************************************************************)
EXTENDS Integers, Sequences, FiniteSets, TLC

VARIABLES
    route,          \* the route the request in flight was made on
    db,             \* Medicine collection, in natural (insertion) order
    pc,             \* handler that runs next for the request in flight
    query,          \* req.query: raw strings
    token,          \* the user the bearer token resolves to (or none)
    user,           \* req.user
    baseQuery,      \* req.baseQuery
    searchResults,  \* req.searchResults
    pagination,     \* req.pagination
    err,            \* error handed to next(err)
    res,            \* the response sent
    ops,            \* operations issued to the collection for this request
    log,            \* the medicine requests answered beside it, in order
    users,          \* User collection, in insertion order
    signups,        \* the requests to the auth router, each with its stage
    parked,         \* a second listing request, while the first one runs
    pages           \* the pages a client has taken so far, in order

vars == <<route, db, pc, query, token, user, baseQuery, searchResults, pagination,
          err, res, ops, log, users, signups, parked, pages>>

\* what the handlers of the listing pipeline never touch
beside == <<log, users, signups, parked, pages>>

-----------------------------------------------------------------------------
(* Bounds *)

MaxRecs == 3        \* records in the collection (general pipeline)
MaxRankRecs == 4    \* records in the collection (ranking inputs)
MaxPageRecs == 3    \* records in the collection (paging inputs)
MaxSearchRecs == 2  \* records in the collection (search terms)
MaxFilterRecs == 2  \* records in the collection (base filters)
MaxGeoRecs == 2     \* records in the collection (coordinate sources)
MaxRouteRecs == 1   \* records in the collection (role-checked routes)
MaxCatalogRecs == 2 \* records in the collection (changing catalogue)
MaxAuthRequests == 2 \* requests to the auth router
MaxTwoRecs == 2     \* records in the collection (two listing requests)
MaxDistanceRecs == 2 \* records in the collection (measured distances)
MaxStrategyRecs == 2 \* records in the collection (both strategies)
MaxSweepRecs == 4    \* records in the collection (walk through the pages)

-----------------------------------------------------------------------------
(* JavaScript values *)

Undefined == [present |-> FALSE, chars |-> <<>>]
Str(s) == [present |-> TRUE, chars |-> s]

NaN == [kind |-> "nan", val |-> 0]
Null == [kind |-> "null", val |-> 0]
NoValue == [kind |-> "undefined", val |-> 0]
Num(v) == [kind |-> "num", val |-> v]

Digits == <<"0", "1", "2", "3", "4", "5", "6", "7", "8", "9">>

IsDigit(c) == \E i \in 1..10 : Digits[i] = c

DigitVal(c) == (CHOOSE i \in 1..10 : Digits[i] = c) - 1

RECURSIVE SkipWs(_, _)
SkipWs(s, i) == IF i <= Len(s) /\ s[i] = " " THEN SkipWs(s, i + 1) ELSE i

\* longest run of decimal digits from position i: <<value, next position>>
RECURSIVE DigitsRun(_, _, _)
DigitsRun(s, i, acc) ==
    IF i <= Len(s) /\ IsDigit(s[i])
    THEN DigitsRun(s, i + 1, acc * 10 + DigitVal(s[i]))
    ELSE <<acc, i>>

\* fraction digits from position i, weighted from w downwards
RECURSIVE FracRun(_, _, _, _)
FracRun(s, i, acc, w) ==
    IF i <= Len(s) /\ IsDigit(s[i])
    THEN FracRun(s, i + 1, acc + DigitVal(s[i]) * w, w \div 10)
    ELSE <<acc, i>>

SignEnd(s, i) == IF i <= Len(s) /\ s[i] \in {"-", "+"} THEN i + 1 ELSE i

IsNeg(s, i) == i <= Len(s) /\ s[i] = "-"

\* parseInt(x): leading blanks, a sign, then the longest run of digits
parseInt(raw) ==
    IF ~raw.present THEN NaN
    ELSE LET s == raw.chars
             i0 == SkipWs(s, 1)
             i1 == SignEnd(s, i0)
             r == DigitsRun(s, i1, 0)
         IN IF r[2] = i1 THEN NaN
            ELSE Num(IF IsNeg(s, i0) THEN 0 - r[1] ELSE r[1])

\* parseFloat(x), in units of 1/100000
parseFloat(raw) ==
    IF ~raw.present THEN NaN
    ELSE LET s == raw.chars
             i0 == SkipWs(s, 1)
             i1 == SignEnd(s, i0)
             r == DigitsRun(s, i1, 0)
             dot == r[2] <= Len(s) /\ s[r[2]] = "."
             f == IF dot THEN FracRun(s, r[2] + 1, 0, 10000)
                         ELSE <<0, r[2]>>
             any == r[2] > i1 \/ (dot /\ f[2] > r[2] + 1)
             mag == r[1] * 100000 + f[1]
         IN IF ~any THEN NaN
            ELSE Num(IF IsNeg(s, i0) THEN 0 - mag ELSE mag)

\* x || d for a number x
OrDefault(n, d) == IF n.kind = "num" /\ n.val # 0 THEN n.val ELSE d

\* truthiness of a query value
Truthy(raw) == raw.present /\ raw.chars # <<>>

isNaN(v) == v.kind \in {"nan", "undefined"}

-----------------------------------------------------------------------------
(* Strings and patterns *)

\* req.query.search as the query parser hands it over: absent, a string,
\* or an array of strings (search[]=...)
NoTerm == [kind |-> "undefined", chars |-> <<>>]
Term(s) == [kind |-> "string", chars |-> s]
TermList(s) == [kind |-> "array", chars |-> s]

RECURSIVE TrimEnd(_)
TrimEnd(s) ==
    IF s # <<>> /\ s[Len(s)] = " " THEN TrimEnd(SubSeq(s, 1, Len(s) - 1)) ELSE s

\* the string as it is, blanks kept
untrimmed(s) == s

\* String.prototype.trim
trim(s) == TrimEnd(SubSeq(s, SkipWs(s, 1), Len(s)))

\* case folding of the 'i' flag
Fold(c) ==
    CASE c = "A" -> "a"
      [] c = "B" -> "b"
      [] c = "C" -> "c"
      [] OTHER -> c

Quantifiers == {"*", "+"}

\* position of the ")" that closes the group being scanned at depth d,
\* 0 when the pattern ends first
RECURSIVE GroupEnd(_, _, _)
GroupEnd(p, i, d) ==
    IF i > Len(p) THEN 0
    ELSE IF p[i] = "\\" THEN GroupEnd(p, i + 2, d)
    ELSE IF p[i] = "(" THEN GroupEnd(p, i + 1, d + 1)
    ELSE IF p[i] = ")" THEN IF d = 1 THEN i ELSE GroupEnd(p, i + 1, d - 1)
    ELSE GroupEnd(p, i + 1, d)

\* position of the first "]" from i on, 0 when there is none
RECURSIVE ClassEnd(_, _)
ClassEnd(p, i) ==
    IF i > Len(p) THEN 0
    ELSE IF p[i] = "]" THEN i
    ELSE ClassEnd(p, i + 1)

\* last position of the atom that starts at i, 0 when it is unterminated:
\* an escaped character, a group, a character class or one character
AtomEnd(p, i) ==
    CASE p[i] = "\\" -> IF i + 1 <= Len(p) THEN i + 1 ELSE 0
      [] p[i] = "(" -> GroupEnd(p, i + 1, 1)
      [] p[i] = "[" -> ClassEnd(p, i + 1)
      [] OTHER -> i

\* position after the atom ending at a and its quantifier, within p[..j]
AfterAtom(p, a, j) ==
    IF a + 1 <= j /\ p[a + 1] \in Quantifiers THEN a + 2 ELSE a + 1

\* p[i..j] is a sequence of atoms, each followed by at most one quantifier;
\* a quantifier with nothing to repeat, an unmatched ")", an unterminated
\* group or class and a trailing "\" are syntax errors
RECURSIVE WellFormed(_, _, _)
WellFormed(p, i, j) ==
    IF i > j THEN TRUE
    ELSE IF p[i] \in Quantifiers \cup {")"} THEN FALSE
    ELSE LET a == AtomEnd(p, i)
         IN IF a = 0 \/ a > j THEN FALSE
            ELSE /\ (p[i] = "(" => WellFormed(p, i + 1, a - 1))
                 /\ WellFormed(p, AfterAtom(p, a, j), j)

\* new RegExp(source, 'i') returns a pattern rather than throwing SyntaxError
Compiles(source) == WellFormed(source, 1, Len(source))

\* the one-character atom p[i..a] accepts the character c
Accepts(p, i, a, c) ==
    CASE p[i] = "." -> TRUE
      [] p[i] = "\\" -> Fold(p[a]) = Fold(c)
      [] p[i] = "[" -> \E k \in i + 1..a - 1 : Fold(p[k]) = Fold(c)
      [] OTHER -> Fold(p[i]) = Fold(c)

RECURSIVE Ends(_, _, _, _, _)
RECURSIVE Once(_, _, _, _, _)
RECURSIVE Star(_, _, _, _, _)

\* positions of s reached from the positions K by one match of the atom
\* p[i..a]
Once(p, i, a, s, K) ==
    IF p[i] = "("
    THEN Ends(p, i + 1, a - 1, s, K)
    ELSE {k + 1 : k \in {x \in K : x <= Len(s) /\ Accepts(p, i, a, s[x])}}

\* ... by any number of matches of the atom
Star(p, i, a, s, K) ==
    LET N == K \cup Once(p, i, a, s, K)
    IN IF N = K THEN K ELSE Star(p, i, a, s, N)

\* ... by a match of the atoms of p[i..j] one after the other
Ends(p, i, j, s, K) ==
    IF i > j THEN K
    ELSE LET a == AtomEnd(p, i)
             n == AfterAtom(p, a, j)
             reached == IF n = a + 1 THEN Once(p, i, a, s, K)
                        ELSE IF p[a + 1] = "*" THEN Star(p, i, a, s, K)
                        ELSE Star(p, i, a, s, Once(p, i, a, s, K))
         IN Ends(p, n, j, s, reached)

\* a compiled pattern matches somewhere in the text
test(source, text) ==
    Ends(source, 1, Len(source), text, 1..Len(text) + 1) # {}

-----------------------------------------------------------------------------
(* Coordinate distance *)

Loc(lat, lon) == [present |-> TRUE, latitude |-> lat, longitude |-> lon]
NoLoc == [present |-> FALSE, latitude |-> 0, longitude |-> 0]

\* calculateDistance evaluated on the coordinates the model uses:
\* <<lat1, lon1, lat2, lon2, metres>>
HaversineTable == {
    <<3000000, 3100000, 3000000, 3100000, 0>>,
    <<3000000, 3100000, 3000001, 3100000, 1>>,
    <<3000000, 3100000, 3001800, 3100000, 2002>>,
    <<3000000, 3100000, 3004500, 3100000, 5004>>,
    <<3000000, 3100000, 9500000, 3100000, 7227670>>,
    <<3000000, 3100000, 3000000, 3102000, 1926>>,
    <<3000000, 3100000, 3001800, 3102000, 2778>>,
    <<3000000, 3100000, -3000000, -3100000, 9355905>>,
    <<3000001, 3100000, 3000000, 3100000, 1>>,
    <<3000001, 3100000, 3000001, 3100000, 0>>,
    <<3000001, 3100000, 3001800, 3100000, 2000>>,
    <<3000001, 3100000, 3004500, 3100000, 5003>>,
    <<3000001, 3100000, 9500000, 3100000, 7227669>>,
    <<3000001, 3100000, 3000000, 3102000, 1926>>,
    <<3000001, 3100000, 3001800, 3102000, 2777>>,
    <<3000001, 3100000, -3000000, -3100000, 9355906>>,
    <<3001800, 3100000, 3000000, 3100000, 2002>>,
    <<3001800, 3100000, 3000001, 3100000, 2000>>,
    <<3001800, 3100000, 3001800, 3100000, 0>>,
    <<3001800, 3100000, 3004500, 3100000, 3002>>,
    <<3001800, 3100000, 9500000, 3100000, 7225669>>,
    <<3001800, 3100000, 3000000, 3102000, 2778>>,
    <<3001800, 3100000, 3001800, 3102000, 1926>>,
    <<3001800, 3100000, -3000000, -3100000, 9357186>>,
    <<3004500, 3100000, 3000000, 3100000, 5004>>,
    <<3004500, 3100000, 3000001, 3100000, 5003>>,
    <<3004500, 3100000, 3001800, 3100000, 3002>>,
    <<3004500, 3100000, 3004500, 3100000, 0>>,
    <<3004500, 3100000, 9500000, 3100000, 7222666>>,
    <<3004500, 3100000, 3000000, 3102000, 5361>>,
    <<3004500, 3100000, 3001800, 3102000, 3567>>,
    <<3004500, 3100000, -3000000, -3100000, 9359106>>,
    <<9500000, 3100000, 3000000, 3100000, 7227670>>,
    <<9500000, 3100000, 3000001, 3100000, 7227669>>,
    <<9500000, 3100000, 3001800, 3100000, 7225669>>,
    <<9500000, 3100000, 3004500, 3100000, 7222666>>,
    <<9500000, 3100000, 9500000, 3100000, 0>>,
    <<9500000, 3100000, 3000000, 3102000, 7227670>>,
    <<9500000, 3100000, 3001800, 3102000, 7225669>>,
    <<9500000, 3100000, -3000000, -3100000, 13592963>>,
    <<3000000, 3102000, 3000000, 3100000, 1926>>,
    <<3000000, 3102000, 3000001, 3100000, 1926>>,
    <<3000000, 3102000, 3001800, 3100000, 2778>>,
    <<3000000, 3102000, 3004500, 3100000, 5361>>,
    <<3000000, 3102000, 9500000, 3100000, 7227670>>,
    <<3000000, 3102000, 3000000, 3102000, 0>>,
    <<3000000, 3102000, 3001800, 3102000, 2002>>,
    <<3000000, 3102000, -3000000, -3100000, 9357386>>,
    <<3001800, 3102000, 3000000, 3100000, 2778>>,
    <<3001800, 3102000, 3000001, 3100000, 2777>>,
    <<3001800, 3102000, 3001800, 3100000, 1926>>,
    <<3001800, 3102000, 3004500, 3100000, 3567>>,
    <<3001800, 3102000, 9500000, 3100000, 7225669>>,
    <<3001800, 3102000, 3000000, 3102000, 2002>>,
    <<3001800, 3102000, 3001800, 3102000, 0>>,
    <<3001800, 3102000, -3000000, -3100000, 9358666>>,
    <<-3000000, -3100000, 3000000, 3100000, 9355905>>,
    <<-3000000, -3100000, 3000001, 3100000, 9355906>>,
    <<-3000000, -3100000, 3001800, 3100000, 9357186>>,
    <<-3000000, -3100000, 3004500, 3100000, 9359106>>,
    <<-3000000, -3100000, 9500000, 3100000, 13592963>>,
    <<-3000000, -3100000, 3000000, 3102000, 9357386>>,
    <<-3000000, -3100000, 3001800, 3102000, 9358666>>,
    <<-3000000, -3100000, -3000000, -3100000, 0>> }

\* the distance counted negative towards the south
signedDistance(lat1, lon1, lat2, lon2) ==
    LET d == (CHOOSE e \in HaversineTable :
                 e[1] = lat1 /\ e[2] = lon1 /\ e[3] = lat2 /\ e[4] = lon2)[5]
    IN IF lat2 < lat1 THEN 0 - d ELSE d

calculateDistance(lat1, lon1, lat2, lon2) ==
    (CHOOSE e \in HaversineTable :
        e[1] = lat1 /\ e[2] = lon1 /\ e[3] = lat2 /\ e[4] = lon2)[5]

\* parseFloat(distance.toFixed(2)): metres to 1/100 km, rounded to nearest
toFixed2(m) == (m + 5) \div 10

-----------------------------------------------------------------------------
(* Geo ranking (search middleware, lines 60-82) *)

\* truthiness of a number-or-null
TruthyNum(v) == v.kind = "num" /\ v.val # 0

\* data.map callback: the item with its distance attached
WithDistance(item, lat, lon) ==
    LET distance ==
            IF item.location.present
            THEN Num(calculateDistance(lat, lon,
                        item.location.latitude, item.location.longitude))
            ELSE Null
    IN [item EXCEPT !.distance =
            IF TruthyNum(distance) THEN Num(toFixed2(distance.val)) ELSE Null]

\* data.sort comparator
Compare(a, b) ==
    IF a.distance.kind = "null" /\ b.distance.kind = "null" THEN 0
    ELSE IF a.distance.kind = "null" THEN 1
    ELSE IF b.distance.kind = "null" THEN -1
    ELSE a.distance.val - b.distance.val

\* Insert with the tie moved in front of its equals (an unstable sort)
RECURSIVE InsertBeforeEquals(_, _)
InsertBeforeEquals(sorted, x) ==
    IF sorted = <<>> THEN <<x>>
    ELSE LET last == sorted[Len(sorted)]
         IN IF Compare(last, x) >= 0
            THEN Append(InsertBeforeEquals(SubSeq(sorted, 1, Len(sorted) - 1), x), last)
            ELSE Append(sorted, x)

\* Array.prototype.sort is a stable sort: insertion from the right
RECURSIVE Insert(_, _)
Insert(sorted, x) ==
    IF sorted = <<>> THEN <<x>>
    ELSE LET last == sorted[Len(sorted)]
         IN IF Compare(last, x) > 0
            THEN Append(Insert(SubSeq(sorted, 1, Len(sorted) - 1), x), last)
            ELSE Append(sorted, x)

\* SortByDistance with the sort left out
Unsorted(data) == data

RECURSIVE SortByDistance(_)
SortByDistance(data) ==
    IF data = <<>> THEN <<>>
    ELSE Insert(SortByDistance(SubSeq(data, 1, Len(data) - 1)), data[Len(data)])

MapSeq(data, lat, lon) ==
    [i \in 1..Len(data) |-> WithDistance(data[i], lat, lon)]

GeoRank(data, lat, lon) == SortByDistance(MapSeq(data, lat, lon))

-----------------------------------------------------------------------------
(* The backing collection *)

\* filter descriptors: the conditions of a Mongoose query
\* clauses of an $or: a pattern on a text field, or a value of a field
Like(field, source) == [field |-> field, re |-> source, flag |-> FALSE, num |-> 0]
IsActiveClause(b) == [field |-> "isActive", re |-> <<>>, flag |-> b, num |-> 0]
PriceClause(n) == [field |-> "price", re |-> <<>>, flag |-> FALSE, num |-> n]

Satisfies(rec, clause) ==
    CASE clause.field = "name" -> test(clause.re, rec.name)
      [] clause.field = "description" -> test(clause.re, rec.description)
      [] clause.field = "isActive" -> rec.isActive = clause.flag
      [] clause.field = "price" -> rec.price = clause.num
      [] OTHER -> FALSE

\* or = <<>> stands for a filter without the $or key
EmptyFilter == [isActive |-> "unset", or |-> <<>>]
ActiveFilter == [isActive |-> "true", or |-> <<>>]

Matches(rec, filter) ==
    /\ filter.isActive = "true" => rec.isActive
    /\ filter.or # <<>> => \E i \in 1..Len(filter.or) : Satisfies(rec, filter.or[i])

\* { ...filter, $or: [ { name: searchRegex }, { description: searchRegex } ] }
WithSearch(filter, source) ==
    [filter EXCEPT !.or = <<Like("name", source), Like("description", source)>>]

RECURSIVE Select(_, _)
Select(seq, filter) ==
    IF seq = <<>> THEN <<>>
    ELSE LET rest == Select(SubSeq(seq, 1, Len(seq) - 1), filter)
             last == seq[Len(seq)]
         IN IF Matches(last, filter) THEN Append(rest, last) ELSE rest

\* model.find(filter).exec(): the matching documents in natural order,
\* pharmacyId populated
Find(coll, filter) == Select(coll, filter)

\* model.countDocuments(filter)
countDocuments(coll, filter) == Len(Find(coll, filter))

SortKey(rec, field) ==
    CASE field = "createdAt" -> rec.createdAt
      [] field = "price" -> rec.price
      [] OTHER -> 0

Abs(n) == IF n < 0 THEN 0 - n ELSE n

Min(a, b) == IF a < b THEN a ELSE b

Max(a, b) == IF a > b THEN a ELSE b

\* the orders in which sort({[field]: dir}) may return the documents:
\* ascending or descending by key, documents with equal keys in any order
SortedOrders(data, field, dir) ==
    LET n == Len(data)
        perms == {p \in [1..n -> 1..n] : \A i, j \in 1..n : i # j => p[i] # p[j]}
        ok(p) == \A i \in 1..n - 1 :
                    dir * SortKey(data[p[i]], field) <= dir * SortKey(data[p[i + 1]], field)
    IN {[i \in 1..n |-> data[p[i]]] : p \in {q \in perms : ok(q)}}

\* .skip(skip).limit(limit) applied by the server to an ordered result;
\* a negative limit is served as its absolute value
SkipLimit(sorted, n, m) ==
    SubSeq(sorted, n + 1, Min(Len(sorted), n + Abs(m)))

-----------------------------------------------------------------------------
(* Paginate helpers *)

\* a slice that takes the element at the end index as well
sliceInclusive(seq, start, end) ==
    LET len == Len(seq)
        from == IF start < 0 THEN Max(len + start, 0) ELSE Min(start, len)
        to == IF end < 0 THEN Max(len + end + 1, 0) ELSE Min(end + 1, len)
    IN SubSeq(seq, from + 1, to)

\* Array.prototype.slice(start, end)
slice(seq, start, end) ==
    LET len == Len(seq)
        from == IF start < 0 THEN Max(len + start, 0) ELSE Min(start, len)
        to == IF end < 0 THEN Max(len + end, 0) ELSE Min(end, len)
    IN SubSeq(seq, from + 1, to)

\* ceil with the quotient rounded towards zero
truncated(a, b) ==
    IF b > 0 THEN a \div b ELSE 0 - (a \div (0 - b))

\* Math.ceil(a / b) for a >= 0 and b # 0
ceil(a, b) ==
    IF b > 0 THEN (a + b - 1) \div b ELSE 0 - (a \div (0 - b))

-----------------------------------------------------------------------------
(* Request state *)

NoWord == [present |-> FALSE, word |-> ""]
Word(w) == [present |-> TRUE, word |-> w]

NoUser == [present |-> FALSE, location |-> NoLoc, role |-> ""]
Customer(loc) == [present |-> TRUE, location |-> loc, role |-> "customer"]
Pharmacy(loc) == [present |-> TRUE, location |-> loc, role |-> "pharmacy"]
Admin == [present |-> TRUE, location |-> NoLoc, role |-> "admin"]

Rec(id, active, price, loc) ==
    [id |-> id, createdAt |-> id, isActive |-> active, price |-> price,
     location |-> loc, distance |-> NoValue,
     name |-> <<"m">>, description |-> <<"d">>]

Titled(rec, name, description) ==
    [rec EXCEPT !.name = name, !.description = description]

NoMeta ==
    [currentPage |-> 0, totalPages |-> 0, totalItems |-> 0, itemsPerPage |-> 0,
     hasNextPage |-> FALSE, hasPrevPage |-> FALSE]

NoQuery == [set |-> FALSE, filter |-> EmptyFilter]
NoResults == [set |-> FALSE, data |-> <<>>]
NoPagination == [set |-> FALSE, data |-> <<>>, pagination |-> NoMeta]

NoRes ==
    [sent |-> FALSE, hasSuccess |-> FALSE, success |-> FALSE, statusCode |-> 0,
     count |-> 0, medicines |-> <<>>, hasPagination |-> FALSE,
     pagination |-> NoMeta]

\* nothing answered beside the request in flight, no user registered, no
\* request to the auth router, no second listing request
Alone ==
    log = <<>> /\ users = <<>> /\ signups = <<>> /\ parked = <<>> /\ pages = <<>>

\* a body { status, message } with no success field and no data
StatusMessage(code) == [NoRes EXCEPT !.sent = TRUE, !.statusCode = code]

\* collection operations as they are issued
FindAllOp(filter) ==
    [op |-> "find", filter |-> filter, paged |-> FALSE, skip |-> 0, limit |-> 0,
     sortBy |-> "", order |-> 0]

FindPageOp(filter, n, m, field, dir) ==
    [op |-> "find", filter |-> filter, paged |-> TRUE, skip |-> n,
     limit |-> m, sortBy |-> field, order |-> dir]

CountOp(filter) ==
    [op |-> "count", filter |-> filter, paged |-> FALSE, skip |-> 0, limit |-> 0,
     sortBy |-> "", order |-> 0]

-----------------------------------------------------------------------------
(* Handlers of GET /api/medicines *)

\* a chain that goes on with the handler after, whatever was passed to next
nextRegardless(after, e) == after

\* next() / next(err): the handler after this one in the chain, or the
\* global error handler when an error is passed
nextHandler(after, e) == IF e = "none" THEN after ELSE "error"

\* authenticate.optional: req.user is set when the token resolves to a user
OptionalAuth ==
    /\ pc = "auth"
    /\ user' = IF token.present THEN token ELSE user
    /\ pc' = "base"
    /\ UNCHANGED <<beside, route, db, query, token, baseQuery, searchResults, pagination, err,
                   res, ops>>

\* the filter of the route's own find: { isActive: true } on the public
\* listing, none on the pharmacy listing
RouteFilter == IF route = "pharmacyList" THEN EmptyFilter ELSE ActiveFilter

\* req.baseQuery = Medicine.find({ isActive: true }) / Medicine.find()
BaseFilter ==
    /\ pc = "base"
    /\ baseQuery' = [set |-> TRUE, filter |-> RouteFilter]
    /\ pc' = "search"
    /\ UNCHANGED <<beside, route, db, query, token, user, searchResults, pagination, err, res,
                   ops>>

\* requester latitude with the stored location preferred to the query
userLatStoredFirst ==
    IF user.present /\ user.location.present
    THEN Num(user.location.latitude)
    ELSE IF Truthy(query.latitude) /\ Truthy(query.longitude)
         THEN parseFloat(query.latitude)
         ELSE Null

\* requester latitude as the search middleware resolves it
userLat ==
    IF Truthy(query.latitude) /\ Truthy(query.longitude)
    THEN parseFloat(query.latitude)
    ELSE IF user.present /\ user.location.present
         THEN Num(user.location.latitude)
         ELSE Null

\* requester longitude taken from the stored location only
userLonStored ==
    IF user.present /\ user.location.present
    THEN Num(user.location.longitude)
    ELSE Null

userLon ==
    IF Truthy(query.latitude) /\ Truthy(query.longitude)
    THEN parseFloat(query.longitude)
    ELSE IF user.present /\ user.location.present
         THEN Num(user.location.longitude)
         ELSE Null

RankingActive(lat, lon) ==
    /\ lat.kind # "null"
    /\ lon.kind # "null"
    /\ ~isNaN(lat)
    /\ ~isNaN(lon)

\* req.query.search && typeof req.query.search === 'string' &&
\* req.query.search.trim()
Searching ==
    /\ query.search.kind = "string"
    /\ query.search.chars # <<>>
    /\ trim(query.search.chars) # <<>>

\* search middleware: a term that does not compile throws before the read
Search ==
    /\ pc = "search"
    /\ LET base == IF baseQuery.set THEN baseQuery.filter ELSE EmptyFilter
           source == trim(query.search.chars)
           filter == IF Searching THEN WithSearch(base, source) ELSE base
       IN IF Searching /\ ~Compiles(source)
          THEN /\ err' = "SyntaxError"
               /\ pc' = nextHandler("paginate", err')
               /\ UNCHANGED <<ops, searchResults, baseQuery>>
          ELSE LET fetched == Find(db, filter)
                   data == IF RankingActive(userLat, userLon)
                           THEN GeoRank(fetched, userLat.val, userLon.val)
                           ELSE fetched
               IN /\ ops' = Append(ops, FindAllOp(filter))
                  /\ \E ok \in BOOLEAN :
                        IF ok
                        THEN /\ searchResults' = [set |-> TRUE, data |-> data]
                             /\ baseQuery' = [set |-> TRUE, filter |-> filter]
                             /\ err' = err
                             /\ pc' = nextHandler("paginate", err')
                        ELSE /\ err' = "db"
                             /\ pc' = nextHandler("paginate", err')
                             /\ UNCHANGED <<searchResults, baseQuery>>
    /\ UNCHANGED <<beside, route, db, query, token, user, pagination, res>>

page == OrDefault(parseInt(query.page), 1)

limit == OrDefault(parseInt(query.limit), 10)

\* the offset of the page after the one asked for
skipByPage == page * limit

skip == (page - 1) * limit

sortBy == IF query.sort.present /\ query.sort.word # "" THEN query.sort.word ELSE "createdAt"

order == IF query.order.present /\ query.order.word = "desc" THEN -1 ELSE 1

\* Meta with hasNextPage true on the last page as well
MetaNextOnLast(total) ==
    LET totalPages == ceil(total, limit)
    IN [currentPage |-> page, totalPages |-> totalPages, totalItems |-> total,
        itemsPerPage |-> limit, hasNextPage |-> page <= totalPages,
        hasPrevPage |-> page > 1]

\* req.pagination as assembled from the page and the total
Meta(total) ==
    LET totalPages == ceil(total, limit)
    IN [currentPage |-> page, totalPages |-> totalPages, totalItems |-> total,
        itemsPerPage |-> limit, hasNextPage |-> page < totalPages,
        hasPrevPage |-> page > 1]

\* a total counted on the collection when paginate runs
totalCountedAgain ==
    countDocuments(db, IF baseQuery.set THEN baseQuery.filter ELSE EmptyFilter)

\* const totalItems = req.searchResults.length
totalItems == Len(searchResults.data)

\* the orders in which the two promises of Promise.all may settle
Settlings == {<<1, 2>>, <<2, 1>>}

\* the values of the promises as they settle, each with its position
Settled(values, settling) ==
    [k \in 1..Len(settling) |-> [index |-> settling[k], value |-> values[settling[k]]]]

\* Promise.all: the values in the order of the promises
PromiseAll(settled) ==
    [i \in 1..Len(settled) |->
        settled[CHOOSE k \in 1..Len(settled) : settled[k].index = i].value]

\* the two reads with the count taken over the whole collection
ServerReadsCountAll(filter) ==
    <<FindPageOp(filter, skip, limit, sortBy, order), CountOp(EmptyFilter)>>

\* baseQuery.clone().skip(skip).limit(limit).sort(sortObj).exec() and
\* model.countDocuments(filter)
ServerReads(filter) ==
    <<FindPageOp(filter, skip, limit, sortBy, order), CountOp(filter)>>

\* paginate middleware: the in-memory slice when req.searchResults is an
\* array, skip/limit/sort and a count on the collection otherwise
Paginate ==
    /\ pc = "paginate"
    /\ IF searchResults.set
       THEN /\ pagination' = [set |-> TRUE,
                              data |-> slice(searchResults.data, skip, skip + limit),
                              pagination |-> Meta(totalItems)]
            /\ pc' = nextHandler("controller", err)
            /\ UNCHANGED <<err, ops>>
       ELSE LET filter == IF baseQuery.set THEN baseQuery.filter ELSE EmptyFilter
                matching == Find(db, filter)
            IN /\ ops' = ops \o ServerReads(filter)
               /\ \E ok \in BOOLEAN :
                     IF ok /\ skip >= 0
                     THEN /\ \E sorted \in SortedOrders(matching, sortBy, order),
                                settling \in Settlings :
                                LET values == <<SkipLimit(sorted, skip, limit),
                                                countDocuments(db, filter)>>
                                    both == PromiseAll(Settled(values, settling))
                                IN pagination' =
                                       [set |-> TRUE,
                                        data |-> both[1],
                                        pagination |-> Meta(both[2])]
                          /\ err' = err
                          /\ pc' = nextHandler("controller", err')
                     ELSE /\ err' = "db"
                          /\ pc' = nextHandler("controller", err')
                          /\ UNCHANGED pagination
    /\ UNCHANGED <<beside, route, db, query, token, user, baseQuery, searchResults, res>>

\* medicineController.getAllMedicines / getAllMedicinesPharmacy
GetAllMedicines ==
    /\ pc = "controller"
    /\ IF pagination.set
       THEN /\ res' = [sent |-> TRUE, statusCode |-> 200,
                       hasSuccess |-> TRUE, success |-> TRUE,
                       count |-> Len(pagination.data),
                       medicines |-> pagination.data,
                       hasPagination |-> TRUE,
                       pagination |-> pagination.pagination]
            /\ pc' = "done"
            /\ UNCHANGED <<err, ops>>
       ELSE /\ ops' = Append(ops, FindAllOp(RouteFilter))
            /\ \E ok \in BOOLEAN :
                  IF ok
                  THEN /\ res' = [sent |-> TRUE, statusCode |-> 200,
                                  hasSuccess |-> TRUE, success |-> TRUE,
                                  count |-> Len(Find(db, RouteFilter)),
                                  medicines |-> Find(db, RouteFilter),
                                  hasPagination |-> FALSE,
                                  pagination |-> NoMeta]
                       /\ pc' = "done"
                       /\ err' = err
                  ELSE /\ err' = "db"
                       /\ pc' = nextHandler("done", err')
                       /\ res' = res
    /\ UNCHANGED <<beside, route, db, query, token, user, baseQuery, searchResults,
                   pagination>>

\* globalErrorHandler
ErrorHandler ==
    /\ pc = "error"
    /\ res' = StatusMessage(500)
    /\ pc' = "done"
    /\ UNCHANGED <<beside, route, db, query, token, user, baseQuery, searchResults, pagination,
                   err, ops>>

\* authenticate: 401 without a token that resolves to a user
Authenticate ==
    /\ pc = "authenticate"
    /\ IF token.present
       THEN /\ user' = token
            /\ pc' = "authorize"
            /\ res' = res
       ELSE /\ res' = StatusMessage(401)
            /\ pc' = "done"
            /\ user' = user
    /\ UNCHANGED <<beside, route, db, query, token, baseQuery, searchResults, pagination,
                   err, ops>>

\* arguments of authorize(...): a role name, or an array of role names
RoleName(r) == [kind |-> "string", names |-> <<r>>]
RoleArray(rs) == [kind |-> "array", names |-> rs]

\* allowedRoles, the rest parameter, as the route passes its arguments
allowedRoles == <<RoleArray(<<"pharmacy">>)>>

\* Array.prototype.includes(role): an element equal to the string
includes(list, role) ==
    \E i \in 1..Len(list) : list[i] = RoleName(role)

\* the handler a pharmacy-only route names after authorize
AfterAuthorize == IF route = "pharmacyList" THEN "base" ELSE "handler"

\* authorize(['pharmacy'])
Authorize ==
    /\ pc = "authorize"
    /\ IF ~user.present
       THEN /\ res' = StatusMessage(401)
            /\ pc' = "done"
       ELSE IF ~includes(allowedRoles, user.role)
       THEN /\ res' = StatusMessage(403)
            /\ pc' = "done"
       ELSE /\ res' = res
            /\ pc' = AfterAuthorize
    /\ UNCHANGED <<beside, route, db, query, token, user, baseQuery, searchResults,
                   pagination, err, ops>>

-----------------------------------------------------------------------------
(* Controllers of the medicine router, as they run once the handlers before *)
(* them have called next().  Each one is a single read or write of the      *)
(* collection followed by its reply, and runs beside the listing request.   *)

\* the state of the listing request in flight
request == <<route, pc, query, token, user, baseQuery, searchResults, pagination,
             err, res, ops>>

\* sendSuccess / sendFail of a controller, for the document it was asked for
Reply(op, id, code) == [op |-> op, id |-> id, statusCode |-> code]

\* the reply before the last one and the last one
Noted(reply) == IF log = <<>> THEN <<reply>> ELSE <<log[Len(log)], reply>>

\* the documents with this _id, active or not
findOneOfAny(coll, id) == {i \in 1..Len(coll) : coll[i].id = id}

\* Medicine.findOne({ _id: id, isActive: true }): the documents it may return
findOne(coll, id) == {i \in 1..Len(coll) : coll[i].id = id /\ coll[i].isActive}

\* Medicine.findById: the documents with this _id
findById(coll, id) == {i \in 1..Len(coll) : coll[i].id = id}

\* the update document of findByIdAndUpdate: isActive is "true", "false" or
\* not among its keys
Patch(isActive) == [isActive |-> isActive]

Patched(rec, update) ==
    IF update.isActive = "unset" THEN rec
    ELSE [rec EXCEPT !.isActive = update.isActive = "true"]

\* Medicine.findByIdAndUpdate(id, update, { new: true })
findByIdAndUpdate(coll, id, update) ==
    [i \in 1..Len(coll) |-> IF coll[i].id = id THEN Patched(coll[i], update)
                                              ELSE coll[i]]

\* the ids a request may name: those of the collection and one beyond
ParamIds == 1..Len(db) + 1

\* createMedicine: body complete or not, asked by who
CreateMedicine ==
    /\ \E who \in {Pharmacy(NoLoc), Customer(NoLoc)}, complete \in BOOLEAN :
          IF ~who.present \/ who.role # "pharmacy"
          THEN /\ log' = Noted(Reply("create", 0, 403))
               /\ db' = db
          ELSE IF ~complete
          THEN /\ log' = Noted(Reply("create", 0, 400))
               /\ db' = db
          ELSE /\ Len(db) < MaxCatalogRecs
               /\ db' = Append(db, Rec(Len(db) + 1, TRUE, 1, who.location))
               /\ log' = Noted(Reply("create", Len(db) + 1, 201))
    /\ UNCHANGED <<request, pages, users, signups, parked>>

\* updateMedicine: the body without quantity is the update document
UpdateMedicine ==
    /\ \E id \in ParamIds, isActive \in {"unset", "true", "false"},
          quantityValid \in BOOLEAN :
          IF ~quantityValid
          THEN /\ log' = Noted(Reply("update", id, 400))
               /\ db' = db
          ELSE IF findById(db, id) = {}
          THEN /\ log' = Noted(Reply("update", id, 404))
               /\ db' = db
          ELSE /\ db' = findByIdAndUpdate(db, id, Patch(isActive))
               /\ log' = Noted(Reply("update", id, 200))
    /\ UNCHANGED <<request, pages, users, signups, parked>>

\* deactivateMedicine
DeactivateMedicine ==
    /\ \E id \in ParamIds :
          IF findById(db, id) = {}
          THEN /\ log' = Noted(Reply("deactivate", id, 404))
               /\ db' = db
          ELSE /\ db' = findByIdAndUpdate(db, id, Patch("false"))
               /\ log' = Noted(Reply("deactivate", id, 200))
    /\ UNCHANGED <<request, pages, users, signups, parked>>

\* activateMedicine
ActivateMedicine ==
    /\ \E id \in ParamIds :
          IF findById(db, id) = {}
          THEN /\ log' = Noted(Reply("activate", id, 404))
               /\ db' = db
          ELSE /\ db' = findByIdAndUpdate(db, id, Patch("true"))
               /\ log' = Noted(Reply("activate", id, 200))
    /\ UNCHANGED <<request, pages, users, signups, parked>>

\* getMedicineById
GetMedicineById ==
    /\ \E id \in ParamIds :
          log' = Noted(Reply("get", id, IF findOne(db, id) = {} THEN 404 ELSE 200))
    /\ UNCHANGED <<request, pages, db, users, signups, parked>>

-----------------------------------------------------------------------------
(* The auth router: POST /signup and POST /add-admin.  A request is served  *)
(* in steps, one for each await of its handler: the handlers before the     *)
(* controller and its validation up to User.findOne, the answer of findOne  *)
(* up to create, and the answer of create up to the response.               *)

\* the lowercase setter of userSchema.email, applied to what is stored and
\* to the conditions of a query
lowercase(s) == [i \in 1..Len(s) |-> Fold(s[i])]

\* a document of the users collection; origin is the position in signups of
\* the request that created it, 0 for a document that was there before
Account(email, role, origin) == [email |-> email, role |-> role, origin |-> origin]

\* req.user of a request without a token
NoAccount == Account(<<>>, "", 0)

\* a request in flight: what was asked, by whom, how far it got, its reply
AuthRequest(kind, requester, email, role, fields, at) ==
    [kind |-> kind, requester |-> requester, email |-> email, role |-> role,
     fields |-> fields, stage |-> at, statusCode |-> 0, message |-> "",
     taken |-> \E i \in 1..Len(users) : users[i].email = lowercase(email)]

\* sendSuccess / sendFail / the error handler's reply, ending the request
Answer(r, code, message) ==
    [r EXCEPT !.stage = "done", !.statusCode = code, !.message = message]

\* User.findOne({ email })
findOneByEmail(coll, email) ==
    {i \in 1..Len(coll) : coll[i].email = lowercase(email)}

\* a collection without the unique index
neverDuplicate(coll, email) == FALSE

\* the unique index on email: E11000 for a value that is already stored
duplicateKey(coll, email) ==
    \E i \in 1..Len(coll) : coll[i].email = lowercase(email)

\* role || "customer"
signupRole(role) == IF role = "" THEN "customer" ELSE role

\* a list that admits admin as well
signupRolesAndAdmin ==
    <<RoleName("customer"), RoleName("pharmacy"), RoleName("admin")>>

\* allowedRoles of signUp
signupRoles == <<RoleName("customer"), RoleName("pharmacy")>>

\* the bodies a client may send: an address in either case, a role or none,
\* the other required fields all there or not
Emails == {<<"a">>, <<"A">>}
BodyRoles == {"", "pharmacy", "admin", "manager"}

\* signUp up to its first await
SignUp ==
    /\ Len(signups) < MaxAuthRequests
    /\ \E email \in Emails, role \in BodyRoles, fields \in {"complete", "missing"} :
          LET r == AuthRequest("signup", NoAccount, email, role, fields, "findOne")
          IN signups' = Append(signups,
                 IF ~includes(signupRoles, signupRole(role))
                 THEN Answer(r, 400, "Invalid role")
                 ELSE IF fields # "complete"
                 THEN Answer(r, 400, "Missing required fields")
                 ELSE r)
    /\ UNCHANGED <<request, pages, db, log, users, parked>>

\* signUp from the answer of findOne to its second await
SignUpFindOne ==
    /\ \E n \in 1..Len(signups) :
          /\ signups[n].kind = "signup" /\ signups[n].stage = "findOne"
          /\ signups' = [signups EXCEPT ![n] =
                 IF findOneByEmail(users, @.email) # {}
                 THEN Answer(@, 400, "Email already registered")
                 ELSE [@ EXCEPT !.stage = "create"]]
    /\ UNCHANGED <<request, pages, db, log, users, parked>>

\* signUp from the answer of Customer.create / Pharmacy.create on; a
\* rejected insert goes through next(err) to the global error handler
SignUpCreate ==
    /\ \E n \in 1..Len(signups) :
          /\ signups[n].kind = "signup" /\ signups[n].stage = "create"
          /\ IF duplicateKey(users, signups[n].email)
             THEN /\ signups' = [signups EXCEPT ![n] =
                                    Answer(@, 400, "Duplicate field value")]
                  /\ users' = users
             ELSE /\ users' = Append(users, Account(lowercase(signups[n].email),
                                                    signupRole(signups[n].role), n))
                  /\ signups' = [signups EXCEPT ![n] =
                                    Answer(@, 201, "Authentication successful")]
    /\ UNCHANGED <<request, pages, db, log, parked>>

\* authenticate, authorize("admin") and addAdmin up to its first await
AddAdmin ==
    /\ Len(signups) < MaxAuthRequests
    /\ \E k \in 0..Len(users), email \in Emails,
          fields \in {"complete", "noPhone", "missing"} :
          LET who == IF k = 0 THEN NoAccount ELSE users[k]
              r == AuthRequest("addAdmin", who, email, "admin", fields, "findOne")
          IN signups' = Append(signups,
                 IF k = 0
                 THEN Answer(r, 401, "Authentication required")
                 ELSE IF ~includes(<<RoleName("admin")>>, who.role)
                 THEN Answer(r, 403, "Access denied")
                 ELSE IF who.role # "admin"
                 THEN Answer(r, 403, "Access denied")
                 ELSE IF fields = "missing"
                 THEN Answer(r, 400, "are required to create an admin")
                 ELSE r)
    /\ UNCHANGED <<request, pages, db, log, users, parked>>

\* addAdmin from the answer of findOne to its second await
AddAdminFindOne ==
    /\ \E n \in 1..Len(signups) :
          /\ signups[n].kind = "addAdmin" /\ signups[n].stage = "findOne"
          /\ signups' = [signups EXCEPT ![n] =
                 IF findOneByEmail(users, @.email) # {}
                 THEN Answer(@, 400, "Admin already exists with this email")
                 ELSE [@ EXCEPT !.stage = "create"]]
    /\ UNCHANGED <<request, pages, db, log, users, parked>>

\* addAdmin from the answer of User.create on; phone is required by the
\* schema and not by the controller
AddAdminCreate ==
    /\ \E n \in 1..Len(signups) :
          /\ signups[n].kind = "addAdmin" /\ signups[n].stage = "create"
          /\ IF signups[n].fields = "noPhone"
             THEN /\ signups' = [signups EXCEPT ![n] =
                                    Answer(@, 400, "Invalid input data")]
                  /\ users' = users
             ELSE IF duplicateKey(users, signups[n].email)
             THEN /\ signups' = [signups EXCEPT ![n] =
                                    Answer(@, 400, "Duplicate field value")]
                  /\ users' = users
             ELSE /\ users' = Append(users, Account(lowercase(signups[n].email),
                                                    "admin", n))
                  /\ signups' = [signups EXCEPT ![n] =
                                    Answer(@, 201, "Admin created successfully")]
    /\ UNCHANGED <<request, pages, db, log, parked>>

-----------------------------------------------------------------------------
(* Two listing requests on one event loop.  A handler runs until it awaits *)
(* or calls next(); there the loop may go on with the other request.  One  *)
(* request is the running one, the other waits in parked.                  *)

\* a value a handler keeps in a variable of the module scope is the one the
\* request that ran last left there
ofModule(own, left) == left

\* a value a handler keeps on req (req.baseQuery, req.searchResults,
\* req.pagination) or in a local is the one this request stored
ofReq(own, left) == own

\* req, res and the position in the chain of the running request
Saved ==
    [route |-> route, pc |-> pc, query |-> query, token |-> token, user |-> user,
     baseQuery |-> baseQuery, searchResults |-> searchResults,
     pagination |-> pagination, err |-> err, res |-> res, ops |-> ops]

\* the event loop leaves the running request and resumes the parked one
Switch ==
    /\ parked # <<>>
    /\ parked' = <<Saved>>
    /\ route' = parked[1].route
    /\ pc' = parked[1].pc
    /\ query' = parked[1].query
    /\ token' = parked[1].token
    /\ user' = parked[1].user
    /\ baseQuery' = ofReq(parked[1].baseQuery, baseQuery)
    /\ searchResults' = ofReq(parked[1].searchResults, searchResults)
    /\ pagination' = ofReq(parked[1].pagination, pagination)
    /\ err' = parked[1].err
    /\ res' = parked[1].res
    /\ ops' = parked[1].ops
    /\ UNCHANGED <<db, log, users, signups, pages>>

Next ==
    \/ OptionalAuth
    \/ BaseFilter
    \/ Search
    \/ Paginate
    \/ GetAllMedicines
    \/ ErrorHandler

-----------------------------------------------------------------------------
(* Inputs *)

\* the requester's position, a pharmacy 1 m, 2 km and 5 km north of it
Here == Loc(3000000, 3100000)
Beside == Loc(3000001, 3100000)
Near == Loc(3001800, 3100000)
Far == Loc(3004500, 3100000)

\* collections of at most n records whose attributes are drawn from attrs,
\* a set of <<isActive, price, location>>
Collections(n, attrs) ==
    UNION {{[i \in 1..k |-> Rec(i, f[i][1], f[i][2], f[i][3])] : f \in [1..k -> attrs]}
           : k \in 0..n}

Request(p, l, s, o, lat, lon) ==
    [page |-> p, limit |-> l, sort |-> s, order |-> o,
     latitude |-> lat, longitude |-> lon, search |-> NoTerm]

\* the request with a search parameter
Seeking(q, term) == [q EXCEPT !.search = term]

\* a request as Express hands it to the first handler
Received(q, t) ==
    /\ route = "list"
    /\ query = q
    /\ token = t
    /\ user = NoUser
    /\ baseQuery = NoQuery
    /\ searchResults = NoResults
    /\ pagination = NoPagination
    /\ err = "none"
    /\ res = NoRes
    /\ ops = <<>>
    /\ Alone

Coordinates ==
    { <<Undefined, Undefined>>,
      <<Str(<<"3", "0">>), Str(<<"3", "1">>)>>,
      <<Str(<<"a", "b", "c">>), Str(<<"3", "1">>)>>,
      <<Str(<<"3", "0">>), Undefined>> }

Sorts == { <<NoWord, NoWord>>, <<Word("createdAt"), Word("desc")>> }

Pagings == { <<Undefined, Undefined>>, <<Str(<<"2">>), Str(<<"1">>)>> }

Tokens == { NoUser, Customer(Far) }

\* the listing route over collections that mix active and inactive records
\* of located and unlocated pharmacies
Init ==
    /\ db \in Collections(MaxRecs, BOOLEAN \X {1} \X {NoLoc, Near, Far})
    /\ pc = "auth"
    /\ \E c \in Coordinates, s \in Sorts, p \in Pagings, t \in Tokens :
          Received(Request(p[1], p[2], s[1], s[2], c[1], c[2]), t)

Spec == Init /\ [][Next]_vars

\* the listing route with a requester at Here over every arrangement of
\* pharmacy locations
InitRank ==
    /\ db \in Collections(MaxRankRecs, {TRUE} \X {1} \X {NoLoc, Here, Beside, Near, Far})
    /\ pc = "auth"
    /\ Received(Request(Undefined, Undefined, NoWord, NoWord,
                        Str(<<"3", "0">>), Str(<<"3", "1">>)), NoUser)

SpecRank == InitRank /\ [][Next]_vars

PageValues ==
    { Undefined, Str(<<"a", "b", "c">>), Str(<<"0">>), Str(<<"-", "1">>),
      Str(<<"1">>), Str(<<"2">>), Str(<<"3">>) }

LimitValues ==
    { Undefined, Str(<<"x">>), Str(<<"0">>), Str(<<"-", "2">>),
      Str(<<"1">>), Str(<<"2">>), Str(<<"1", "0", "1">>) }

\* the listing route under every combination of raw paging values
InitPaging ==
    /\ db \in Collections(MaxPageRecs, BOOLEAN \X {1} \X {NoLoc})
    /\ pc = "auth"
    /\ \E p \in PageValues, l \in LimitValues :
          Received(Request(p, l, NoWord, NoWord, Undefined, Undefined), NoUser)

SpecPaging == InitPaging /\ [][Next]_vars

\* the paginate middleware on its own: behind a handler that set
\* req.baseQuery, with or without a materialized req.searchResults
InitPaginate ==
    /\ db \in Collections(MaxPageRecs, BOOLEAN \X {1, 2} \X {NoLoc})
    /\ pc = "paginate"
    /\ route = "list"
    /\ \E p \in PageValues, l \in LimitValues,
          s \in {NoWord, Word("price")}, o \in {NoWord, Word("desc")} :
          /\ query = Request(p, l, s, o, Undefined, Undefined)
          /\ token = NoUser
          /\ user = NoUser
          /\ pagination = NoPagination
          /\ err = "none"
          /\ res = NoRes
          /\ ops = <<>>
          /\ Alone
    /\ \E f \in {EmptyFilter, ActiveFilter} :
          /\ baseQuery = [set |-> TRUE, filter |-> f]
          /\ searchResults \in {NoResults, [set |-> TRUE, data |-> Find(db, f)]}

NextPaginate ==
    \/ Paginate
    \/ GetAllMedicines
    \/ ErrorHandler

SpecPaginate == InitPaginate /\ [][NextPaginate]_vars

\* the decimal numeral of n, as a client writes it into the query string
decimal(n) ==
    IF n < 10
    THEN <<Digits[n + 1]>>
    ELSE <<Digits[(n \div 10) + 1], Digits[(n % 10) + 1]>>

\* page sizes of a client that walks through the pages
SweepLimits == {Str(<<"1">>), Str(<<"2">>), Str(<<"3">>)}

\* the client keeps the page it was sent and asks for the next one, with
\* the same page size, while the response says there is one
AskNextPage ==
    /\ pc = "done"
    /\ res.sent /\ res.success /\ res.hasPagination
    /\ res.pagination.hasNextPage
    /\ pages' = Append(pages, res.medicines)
    /\ query' = [query EXCEPT !.page = Str(decimal(res.pagination.currentPage + 1))]
    /\ pc' = "paginate"
    /\ pagination' = NoPagination
    /\ res' = NoRes
    /\ UNCHANGED <<route, db, token, user, baseQuery, searchResults, err, ops,
                   log, users, signups, parked>>

\* the paginate middleware behind a materialized req.searchResults, asked
\* for page 1
InitSweep ==
    /\ db \in Collections(MaxSweepRecs, BOOLEAN \X {1} \X {NoLoc})
    /\ pc = "paginate"
    /\ route = "list"
    /\ \E l \in SweepLimits :
          query = Request(Str(<<"1">>), l, NoWord, NoWord, Undefined, Undefined)
    /\ token = NoUser
    /\ user = NoUser
    /\ pagination = NoPagination
    /\ err = "none"
    /\ res = NoRes
    /\ ops = <<>>
    /\ Alone
    /\ \E f \in {EmptyFilter, ActiveFilter} :
          /\ baseQuery = [set |-> TRUE, filter |-> f]
          /\ searchResults = [set |-> TRUE, data |-> Find(db, f)]

NextSweep ==
    \/ Paginate
    \/ GetAllMedicines
    \/ AskNextPage

SpecSweep == InitSweep /\ [][NextSweep]_vars

\* collections of at most n records whose attributes are drawn from attrs,
\* a set of <<isActive, price, <<name, description>>>>
Catalogue(n, attrs) ==
    UNION {{[i \in 1..k |-> Titled(Rec(i, f[i][1], f[i][2], NoLoc),
                                   f[i][3][1], f[i][3][2])]
            : f \in [1..k -> attrs]}
           : k \in 0..n}

\* <<name, description>> of the records searched
Texts ==
    { <<<<"c", "A", "b">>, <<"x">>>>,
      <<<<"x">>, <<"a", "b">>>>,
      <<<<"a", "+", "b">>, <<"x">>>>,
      <<<<"a", "a", "b", " ", "c">>, <<"x">>>>,
      <<<<"a", "+", "b", " ", "(", "c", ")">>, <<"x">>>> }

\* search parameters: absent, empty, blank, an array, plain words, and
\* words with characters that are special in a pattern
Terms ==
    { NoTerm, Term(<<>>), Term(<<" ">>), TermList(<<"a", "b">>),
      Term(<<"a", "b">>), Term(<<" ", "A", "B", " ">>),
      Term(<<"a", "+", "b">>), Term(<<"a", ".", "b">>),
      Term(<<"a", "+", "b", " ", "(", "c", ")">>),
      Term(<<"[", "a", "c", "]", "b">>), Term(<<"\\", "+">>),
      Term(<<"(">>), Term(<<"[">>), Term(<<"+">>), Term(<<"*">>),
      Term(<<"\\">>) }

\* the listing route under every search parameter
InitSearch ==
    /\ db \in Catalogue(MaxSearchRecs, BOOLEAN \X {1} \X Texts)
    /\ pc = "auth"
    /\ \E t \in Terms :
          Received(Seeking(Request(Undefined, Undefined, NoWord, NoWord,
                                   Undefined, Undefined), t), NoUser)

SpecSearch == InitSearch /\ [][Next]_vars

\* latitude and longitude as they may arrive: absent, numeric, not a
\* number, one of the two only, empty, and a latitude beyond the pole
GeoCoordinates ==
    { <<Undefined, Undefined>>,
      <<Str(<<"3", "0">>), Str(<<"3", "1">>)>>,
      <<Str(<<"a", "b", "c">>), Str(<<"3", "1">>)>>,
      <<Str(<<"3", "0">>), Str(<<"x">>)>>,
      <<Str(<<"3", "0">>), Undefined>>,
      <<Undefined, Str(<<"3", "1">>)>>,
      <<Str(<<>>), Str(<<"3", "1">>)>>,
      <<Str(<<"9", "5">>), Str(<<"3", "1">>)>> }

\* the listing route for anonymous requesters and for users with and
\* without a stored location, under every kind of coordinate parameter
InitGeo ==
    /\ db \in Collections(MaxGeoRecs, {TRUE} \X {1} \X {NoLoc, Near, Far})
    /\ pc = "auth"
    /\ \E c \in GeoCoordinates, s \in Sorts,
          t \in {NoUser, Customer(NoLoc), Customer(Far)} :
          Received(Request(Undefined, Undefined, s[1], s[2], c[1], c[2]), t)

SpecGeo == InitGeo /\ [][Next]_vars

\* the routes of the medicine router that name authorize(['pharmacy'])
PharmacyRoutes == {"create", "update", "pharmacyList", "deactivate", "activate"}

\* the medicine router: the public listing and the pharmacy-only routes,
\* asked without a token and by a user of every role
InitRoutes ==
    /\ db \in Collections(MaxRouteRecs, BOOLEAN \X {1} \X {NoLoc})
    /\ route \in {"list"} \cup PharmacyRoutes
    /\ pc = IF route = "list" THEN "auth" ELSE "authenticate"
    /\ query = Request(Undefined, Undefined, NoWord, NoWord, Undefined, Undefined)
    /\ token \in {NoUser, Customer(NoLoc), Pharmacy(Near), Admin}
    /\ user = NoUser
    /\ baseQuery = NoQuery
    /\ searchResults = NoResults
    /\ pagination = NoPagination
    /\ err = "none"
    /\ res = NoRes
    /\ ops = <<>>
    /\ Alone

NextRoutes ==
    \/ Authenticate
    \/ Authorize
    \/ OptionalAuth
    \/ BaseFilter
    \/ Search
    \/ Paginate
    \/ GetAllMedicines
    \/ ErrorHandler

SpecRoutes == InitRoutes /\ [][NextRoutes]_vars

\* a base filter with a disjunction of its own
EitherFilter ==
    [isActive |-> "unset", or |-> <<IsActiveClause(TRUE), PriceClause(1)>>]

BaseFilters ==
    { NoQuery,
      [set |-> TRUE, filter |-> EmptyFilter],
      [set |-> TRUE, filter |-> ActiveFilter],
      [set |-> TRUE, filter |-> EitherFilter] }

\* the search middleware on its own: behind a handler that may have set
\* req.baseQuery to a filter of its choice
InitFilter ==
    /\ db \in Catalogue(MaxFilterRecs,
                         BOOLEAN \X {1, 2} \X {<<<<"c", "A", "b">>, <<"x">>>>,
                                                <<<<"x">>, <<"y">>>>})
    /\ pc = "search"
    /\ route = "list"
    /\ baseQuery \in BaseFilters
    /\ \E t \in {NoTerm, Term(<<>>), Term(<<" ">>), TermList(<<"a", "b">>),
                  Term(<<"a", "b">>), Term(<<"(">>)} :
          query = Seeking(Request(Undefined, Undefined, NoWord, NoWord,
                                  Undefined, Undefined), t)
    /\ token = NoUser
    /\ user = NoUser
    /\ searchResults = NoResults
    /\ pagination = NoPagination
    /\ err = "none"
    /\ res = NoRes
    /\ ops = <<>>
    /\ Alone

NextFilter ==
    \/ Search
    \/ Paginate
    \/ GetAllMedicines
    \/ ErrorHandler

SpecFilter == InitFilter /\ [][NextFilter]_vars

\* the public listing, asked for its first and second page of one record,
\* while the catalogue is changed and single records are asked for
InitCatalog ==
    /\ db \in Collections(MaxCatalogRecs, BOOLEAN \X {1} \X {NoLoc})
    /\ pc = "auth"
    /\ \E p \in {Str(<<"1">>), Str(<<"2">>)} :
          Received(Request(p, Str(<<"1">>), NoWord, NoWord, Undefined, Undefined),
                   NoUser)

NextCatalog ==
    \/ OptionalAuth
    \/ BaseFilter
    \/ Search
    \/ Paginate
    \/ GetAllMedicines
    \/ ErrorHandler
    \/ CreateMedicine
    \/ UpdateMedicine
    \/ DeactivateMedicine
    \/ ActivateMedicine
    \/ GetMedicineById

SpecCatalog == InitCatalog /\ [][NextCatalog]_vars

\* the users collection before the first request: empty, or with the
\* administrator the deployment starts with, or with a customer as well
Seeds ==
    { <<>>,
      <<Account(<<"r">>, "admin", 0)>>,
      <<Account(<<"r">>, "admin", 0), Account(<<"a">>, "customer", 0)>> }

\* the auth router, its requests interleaved at their awaits
InitAuth ==
    /\ db = <<>>
    /\ pc = "auth"
    /\ route = "list"
    /\ query = Request(Undefined, Undefined, NoWord, NoWord, Undefined, Undefined)
    /\ token = NoUser
    /\ user = NoUser
    /\ baseQuery = NoQuery
    /\ searchResults = NoResults
    /\ pagination = NoPagination
    /\ err = "none"
    /\ res = NoRes
    /\ ops = <<>>
    /\ log = <<>>
    /\ parked = <<>>
    /\ pages = <<>>
    /\ signups = <<>>
    /\ users \in Seeds

NextAuth ==
    \/ SignUp
    \/ SignUpFindOne
    \/ SignUpCreate
    \/ AddAdmin
    \/ AddAdminFindOne
    \/ AddAdminCreate

SpecAuth == InitAuth /\ [][NextAuth]_vars

\* what either of two concurrent requests may ask for: the first page by
\* default, the second page of one record, the records ranked from Here,
\* the records that match a term
Askings ==
    { Request(Undefined, Undefined, NoWord, NoWord, Undefined, Undefined),
      Request(Str(<<"2">>), Str(<<"1">>), NoWord, NoWord, Undefined, Undefined),
      Request(Undefined, Undefined, NoWord, NoWord,
              Str(<<"3", "0">>), Str(<<"3", "1">>)),
      Seeking(Request(Undefined, Undefined, NoWord, NoWord, Undefined, Undefined),
              Term(<<"x">>)) }

\* a request that has been received while another one is running
Waiting(q) ==
    [route |-> "list", pc |-> "auth", query |-> q, token |-> NoUser,
     user |-> NoUser, baseQuery |-> NoQuery, searchResults |-> NoResults,
     pagination |-> NoPagination, err |-> "none", res |-> NoRes, ops |-> <<>>]

\* two listing requests over one collection that does not change
InitTwo ==
    /\ db \in Collections(MaxTwoRecs, BOOLEAN \X {1} \X {Near, Far})
    /\ route = "list"
    /\ pc = "auth"
    /\ \E q1, q2 \in Askings :
          /\ query = q1
          /\ parked = <<Waiting(q2)>>
    /\ token = NoUser
    /\ user = NoUser
    /\ baseQuery = NoQuery
    /\ searchResults = NoResults
    /\ pagination = NoPagination
    /\ err = "none"
    /\ res = NoRes
    /\ ops = <<>>
    /\ log = <<>>
    /\ users = <<>>
    /\ pages = <<>>
    /\ signups = <<>>

\* pharmacies east of Here and of Near, and one in the other hemispheres
East == Loc(3000000, 3102000)
NearEast == Loc(3001800, 3102000)
South == Loc(-3000000, -3100000)

Places == {Here, Near, Far, East, NearEast, South}

\* the requester's latitude and longitude as decimal strings
Positions ==
    { <<Str(<<"3", "0">>), Str(<<"3", "1">>)>>,
      <<Str(<<"3", "0", ".", "0", "1", "8">>), Str(<<"3", "1">>)>>,
      <<Str(<<"3", "0", ".", "0", "1", "8">>), Str(<<"3", "1", ".", "0", "2">>)>>,
      <<Str(<<"-", "3", "0">>), Str(<<"-", "3", "1">>)>> }

\* the listing route asked from each position over pharmacies at each place:
\* the search middleware applies calculateDistance to every pair
InitDistance ==
    /\ db \in Collections(MaxDistanceRecs, {TRUE} \X {1} \X Places)
    /\ pc = "auth"
    /\ \E c \in Positions :
          Received(Request(Undefined, Undefined, NoWord, NoWord, c[1], c[2]), NoUser)

SpecDistance == InitDistance /\ [][Next]_vars

\* both strategies of paginate: the listing route, which reaches paginate
\* through the search middleware, and paginate behind a handler that set
\* req.baseQuery and nothing else
InitStrategies ==
    /\ db \in Collections(MaxStrategyRecs, BOOLEAN \X {1, 2} \X {NoLoc, Near})
    /\ \E p \in Pagings, s \in {NoWord, Word("price")}, o \in {NoWord, Word("desc")} :
          \/ /\ pc = "auth"
             /\ \E c \in {<<Undefined, Undefined>>,
                          <<Str(<<"3", "0">>), Str(<<"3", "1">>)>>} :
                   Received(Request(p[1], p[2], s, o, c[1], c[2]), NoUser)
          \/ /\ pc = "paginate"
             /\ route = "list"
             /\ query = Request(p[1], p[2], s, o, Undefined, Undefined)
             /\ token = NoUser
             /\ user = NoUser
             /\ baseQuery \in {[set |-> TRUE, filter |-> EmptyFilter],
                               [set |-> TRUE, filter |-> ActiveFilter]}
             /\ searchResults = NoResults
             /\ pagination = NoPagination
             /\ err = "none"
             /\ res = NoRes
             /\ ops = <<>>
             /\ Alone

SpecStrategies == InitStrategies /\ [][Next]_vars

NextTwo ==
    \/ OptionalAuth
    \/ BaseFilter
    \/ Search
    \/ Paginate
    \/ GetAllMedicines
    \/ ErrorHandler
    \/ Switch

SpecTwo == InitTwo /\ [][NextTwo]_vars

-----------------------------------------------------------------------------
(* Properties of the listing pipeline *)

\* the request is served with ranking active
Ranked == RankingActive(userLat, userLon)

Fetched == pc \in {"paginate", "controller", "done"} /\ searchResults.set

Answered == pc = "done" /\ res.success /\ res.hasPagination

Ids(seq) == [i \in 1..Len(seq) |-> seq[i].id]

\* numeric distances ascending, null distances last
DistanceOrdered(seq) ==
    \A i, j \in 1..Len(seq) :
        i < j =>
            /\ ~(seq[i].distance.kind = "null" /\ seq[j].distance.kind = "num")
            /\ (seq[i].distance.kind = "num" /\ seq[j].distance.kind = "num"
                    => seq[i].distance.val <= seq[j].distance.val)

\* records with the same distance (or both without one) in natural order
TiesInInputOrder(seq) ==
    \A i, j \in 1..Len(seq) :
        (i < j /\ seq[i].distance = seq[j].distance) => seq[i].id < seq[j].id

\* seq holds exactly the records of coll that satisfy keep, each once
SameRecords(seq, coll, keep(_)) ==
    /\ Len(seq) = Cardinality({i \in 1..Len(coll) : keep(coll[i])})
    /\ \A i \in 1..Len(coll) :
          keep(coll[i]) =>
              \E k \in 1..Len(seq) :
                  [seq[k] EXCEPT !.distance = NoValue] = coll[i]

IsActive(rec) == rec.isActive

\* items ordered by the sort field and direction of the request
OrderedAsRequested(items) ==
    \A i \in 1..Len(items) - 1 :
        order * SortKey(items[i], sortBy) <= order * SortKey(items[i + 1], sortBy)

\* C1: an unranked listing request is paged by the server-side strategy (a
\* count plus a skip/limit/sort find on the collection) and its items are
\* ordered by the requested sort field and direction.
C1_UnrankedServerSideSorted ==
    (Answered /\ ~Ranked) =>
        /\ \E k \in 1..Len(ops) : ops[k].op = "count"
        /\ \E k \in 1..Len(ops) : ops[k].op = "find" /\ ops[k].paged
        /\ OrderedAsRequested(res.medicines)

\* the window of seq that page/limit select, for page >= 1 and limit >= 1
IsWindow(items, seq, p, l) ==
    /\ Len(items) = Max(0, Min(l, Len(seq) - (p - 1) * l))
    /\ \A i \in 1..Len(items) : items[i] = seq[(p - 1) * l + i]

\* C2: with ranking active, the one collection operation is a find of all
\* matching records with no skip, limit or sort; the fetched records are
\* put in distance order before any page exists; the page is then the
\* window of that ranked list, so it is determined by the collection, the
\* coordinates, page and limit alone and the requested sort and order have
\* no effect on it.
C2_RankedFetchRankSlice ==
    (Fetched /\ Ranked) =>
        /\ ops = <<FindAllOp(ActiveFilter)>>
        /\ SameRecords(searchResults.data, db, IsActive)
        /\ DistanceOrdered(searchResults.data)
        /\ TiesInInputOrder(searchResults.data)
        /\ pc = "paginate" => ~pagination.set
        /\ pagination.set =>
              IsWindow(pagination.data, searchResults.data, page, limit)
        /\ Answered => res.medicines = pagination.data

\* a ranked request that asks for sort=createdAt, order=desc and page 2 of
\* size 1 is answered with the second nearest record, which is not the
\* second newest
C2_Witness ==
    /\ Answered /\ Ranked
    /\ query.order = Word("desc")
    /\ page = 2 /\ limit = 1
    /\ Len(searchResults.data) = 3
    /\ Len(res.medicines) = 1
    /\ Ids(searchResults.data) = <<3, 1, 2>>
    /\ res.medicines[1].id = 1

\* C3: the ranker's output is the stable sort of its input by distance
\* ascending with null distances last: a permutation of the input, numeric
\* before null, numeric non-decreasing, ties and nulls in input order; the
\* input [A(no location), B(5 km), C(2 km), D(no location)] gives [C, B, A, D].
C3_RankIsStableSort ==
    (Fetched /\ Ranked) =>
        /\ SameRecords(searchResults.data, db, IsActive)
        /\ DistanceOrdered(searchResults.data)
        /\ TiesInInputOrder(searchResults.data)
        /\ [i \in 1..Len(db) |-> db[i].location] = <<NoLoc, Far, Near, NoLoc>>
              => Ids(searchResults.data) = <<3, 2, 1, 4>>

C3_Witness ==
    /\ Fetched /\ Ranked
    /\ [i \in 1..Len(db) |-> db[i].location] = <<NoLoc, Far, Near, NoLoc>>
    /\ Ids(searchResults.data) = <<3, 2, 1, 4>>

\* C4: with ranking active a record has a numeric distance exactly when its
\* owner location is present; a record whose owner is at the requester's
\* coordinates has distance 0 and precedes every record with a larger
\* distance.
C4_DistanceIffLocated ==
    (Fetched /\ Ranked) =>
        \A i \in 1..Len(searchResults.data) :
            LET item == searchResults.data[i]
            IN /\ item.distance.kind = "num" <=> item.location.present
               /\ (item.location.present
                   /\ item.location.latitude = userLat.val
                   /\ item.location.longitude = userLon.val)
                      => /\ item.distance = Num(0)
                         /\ \A j \in 1..Len(searchResults.data) :
                               (searchResults.data[j].distance.kind = "num"
                                /\ searchResults.data[j].distance.val > 0) => i < j

\* C5: whatever the raw page and limit values are, every page Result has
\* currentPage >= 1 and 1 <= itemsPerPage <= 100, a value below 1,
\* non-numeric or above 100 having been replaced by its default (page 1,
\* pageSize 10), and the request is answered with that page Result.
C5_PagingClamped ==
    LET p == parseInt(query.page)
        l == parseInt(query.limit)
        meta == pagination.pagination
    IN /\ pagination.set =>
            /\ meta.currentPage >= 1
            /\ meta.itemsPerPage >= 1 /\ meta.itemsPerPage <= 100
            /\ (p.kind # "num" \/ p.val < 1) => meta.currentPage = 1
            /\ (l.kind # "num" \/ l.val < 1 \/ l.val > 100) => meta.itemsPerPage = 10
       /\ (pc = "done" /\ err = "none") => Answered

\* C6: in a page Result with page >= 1 and pageSize >= 1, of either
\* strategy, hasNextPage is true exactly when page * pageSize < totalItems
\* and hasPrevPage exactly when page > 1.
C6_NextPrevFlags ==
    LET meta == pagination.pagination
    IN (pagination.set /\ meta.currentPage >= 1 /\ meta.itemsPerPage >= 1) =>
            /\ meta.hasNextPage <=> meta.currentPage * meta.itemsPerPage < meta.totalItems
            /\ meta.hasPrevPage <=> meta.currentPage > 1

\* page 2 of 2 in pages of one record, by the server-side strategy
C6_Witness ==
    /\ pagination.set
    /\ ~searchResults.set
    /\ pagination.pagination.currentPage = 2
    /\ pagination.pagination.itemsPerPage = 1
    /\ pagination.pagination.totalItems = 2
    /\ ~pagination.pagination.hasNextPage
    /\ pagination.pagination.hasPrevPage

\* C7: in every page Result, of either strategy, totalPages is the least
\* integer not below totalItems / itemsPerPage, and it is 0 when totalItems
\* is 0.
C7_TotalPagesIsCeiling ==
    LET meta == pagination.pagination
        t == meta.totalItems
        l == meta.itemsPerPage
        tp == meta.totalPages
    IN pagination.set =>
            /\ l # 0
            /\ l > 0 => (tp * l >= t /\ (tp - 1) * l < t)
            /\ l < 0 => (tp * l <= t /\ (tp - 1) * l > t)
            /\ t = 0 => tp = 0

\* three matching records in pages of two: two pages, by the in-memory
\* strategy
C7_Witness ==
    /\ pagination.set
    /\ searchResults.set
    /\ pagination.pagination.totalItems = 3
    /\ pagination.pagination.itemsPerPage = 2
    /\ pagination.pagination.totalPages = 2

\* the elements of seq at the 0-based indices from .. from + n - 1 that exist
Existing(seq, from, n) ==
    LET idx == {k \in 0..Len(seq) - 1 : from <= k /\ k <= from + n - 1}
    IN IF idx = {} THEN <<>>
       ELSE LET lo == CHOOSE k \in idx : \A m \in idx : k <= m
            IN [i \in 1..Cardinality(idx) |-> seq[lo + i]]

\* C8: in the in-memory strategy totalItems is the length of the
\* materialized sequence and the page items are exactly its elements at the
\* indices (page-1)*pageSize .. (page-1)*pageSize + pageSize - 1 that exist.
C8_InMemoryWindow ==
    LET meta == pagination.pagination
    IN (pagination.set /\ searchResults.set) =>
            /\ meta.totalItems = Len(searchResults.data)
            /\ pagination.data =
                  Existing(searchResults.data,
                           (meta.currentPage - 1) * meta.itemsPerPage,
                           meta.itemsPerPage)

\* C9: a listing request whose filter matches no record is answered with a
\* success response whose page Result has zero items, totalItems = 0,
\* totalPages = 0 and hasNextPage = false.
C9_EmptyResultIsSuccess ==
    (pc = "done" /\ err = "none" /\ Find(db, ActiveFilter) = <<>>) =>
        /\ Answered
        /\ res.count = 0
        /\ res.medicines = <<>>
        /\ res.pagination.totalItems = 0
        /\ res.pagination.totalPages = 0
        /\ ~res.pagination.hasNextPage

\* no two matching records have the same value of the sort field
DistinctKeys ==
    LET m == Find(db, baseQuery.filter)
    IN \A i, j \in 1..Len(m) :
          i # j => SortKey(m[i], sortBy) # SortKey(m[j], sortBy)

\* C10: over the same filter, sort specification and collection, ranking
\* inactive, the server-side strategy returns the totalItems and the page
\* items that the in-memory strategy returns for the materialized matches
\* (stated for page >= 1, pageSize >= 1 and sort keys without ties).
C10_StrategiesAgree ==
    LET meta == pagination.pagination
    IN (pagination.set /\ ~searchResults.set /\ DistinctKeys
        /\ meta.currentPage >= 1 /\ meta.itemsPerPage >= 1) =>
            /\ meta.totalItems = Len(Find(db, baseQuery.filter))
            /\ pagination.data =
                  slice(Find(db, baseQuery.filter), skip, skip + limit)

-----------------------------------------------------------------------------
(* Properties of the search term *)

\* C11: whatever characters the search term contains, a listing request
\* never ends in an error response because of the term: an error response
\* is only ever sent for a failed read of the collection.
C11_TermNeverFatal ==
    (pc = "done" /\ res.sent /\ res.statusCode = 500) => err = "db"

\* the term is a string with a character other than a blank
NonBlank(term) ==
    term.kind = "string" /\ \E i \in 1..Len(term.chars) : term.chars[i] # " "

\* the word occurs in the text as it is written, letter case aside
Contains(text, word) ==
    \E k \in 0..Len(text) - Len(word) :
        \A i \in 1..Len(word) : Fold(text[k + i]) = Fold(word[i])

\* C12: a non-blank search term selects exactly the (active) records whose
\* name or description contains the trimmed term literally, ignoring case;
\* characters that are special in a pattern are matched as themselves.
C12_TermMatchesLiterally ==
    (Fetched /\ NonBlank(query.search)) =>
        LET word == trim(query.search.chars)
            keep(rec) == /\ rec.isActive
                         /\ \/ Contains(rec.name, word)
                            \/ Contains(rec.description, word)
        IN \A i \in 1..Len(db) :
              keep(db[i]) <=>
                  \E k \in 1..Len(searchResults.data) :
                      searchResults.data[k].id = db[i].id

\* C13: for every base filter and every non-blank term, the records read
\* are exactly those that satisfy every condition of the base filter and
\* match the term in the name or the description; no condition of the base
\* filter, a disjunction included, is dropped.
C13_BaseConditionsKept ==
    [][(pc = "search" /\ pc' = "paginate" /\ NonBlank(query.search)) =>
          LET base == IF baseQuery.set THEN baseQuery.filter ELSE EmptyFilter
              source == trim(query.search.chars)
              keep(rec) == /\ Matches(rec, base)
                           /\ \/ test(source, rec.name)
                              \/ test(source, rec.description)
          IN \A i \in 1..Len(db) :
                keep(db[i]) <=>
                    \E k \in 1..Len(searchResults'.data) :
                        searchResults'.data[k].id = db[i].id]_vars

\* C14: when the term is absent, empty, all blanks or not a string, the
\* read is issued with exactly the base filter the caller supplied (the
\* empty filter when there is none), it returns every record the base
\* filter admits, and the same filter is handed on in req.baseQuery.
C14_BlankTermKeepsBaseFilter ==
    [][(pc = "search" /\ ~NonBlank(query.search)) =>
          LET base == IF baseQuery.set THEN baseQuery.filter ELSE EmptyFilter
              keep(rec) == Matches(rec, base)
          IN /\ ops' = Append(ops, FindAllOp(base))
             /\ pc' = "paginate" =>
                   /\ baseQuery' = [set |-> TRUE, filter |-> base]
                   /\ SameRecords(searchResults'.data, db, keep)]_vars

\* a term of blanks was served from a disjunctive base filter
C14_Witness ==
    /\ pc = "paginate"
    /\ query.search = Term(<<" ">>)
    /\ ops = <<FindAllOp(EitherFilter)>>
    /\ Len(searchResults.data) = 1
    /\ Len(db) = 2

-----------------------------------------------------------------------------
(* Properties of the requester coordinates *)

\* the parameter has a value
Supplied(raw) == raw.present /\ raw.chars # <<>>

\* the parameter has a value that reads as a number
Numeric(raw) == Supplied(raw) /\ parseFloat(raw).kind = "num"

\* the parameter has a value that is not a number or lies beyond most
Invalid(raw, most) ==
    /\ Supplied(raw)
    /\ \/ ~Numeric(raw)
       \/ parseFloat(raw).val < 0 - most
       \/ parseFloat(raw).val > most

Unranked(items) ==
    /\ \A i \in 1..Len(items) : items[i].distance = NoValue
    /\ \A i, j \in 1..Len(items) : i < j => items[i].id < items[j].id

\* every located item away from the point carries its distance from it
MeasuredFrom(items, lat, lon) ==
    \A i \in 1..Len(items) :
        LET at == items[i].location
        IN (at.present /\ <<at.latitude, at.longitude>> # <<lat, lon>>) =>
              items[i].distance =
                  Num(toFixed2(calculateDistance(lat, lon, at.latitude,
                                                 at.longitude)))

\* C15: a listing request whose latitude or longitude is not a number or
\* is out of range (latitude beyond +-90, longitude beyond +-180) is not
\* rejected and is served unranked: no item carries a distance and the
\* items are not put in distance order.
C15_InvalidCoordinatesUnranked ==
    (\/ Invalid(query.latitude, 9000000)
     \/ Invalid(query.longitude, 18000000)) =>
        /\ Fetched => Unranked(searchResults.data)
        /\ res.sent => (res.statusCode = 200 \/ err = "db")

\* C16: when latitude and longitude are both supplied in the query, the
\* distances are measured from them whatever location the requester has
\* stored (and nothing is measured when they are not numbers); the stored
\* location is the point of measure exactly when the query does not supply
\* both and the requester has one.
C16_QueryCoordinatesFirst ==
    Fetched =>
        LET both == Supplied(query.latitude) /\ Supplied(query.longitude)
            numbers == Numeric(query.latitude) /\ Numeric(query.longitude)
            stored == user.present /\ user.location.present
            items == searchResults.data
        IN /\ (both /\ numbers) =>
                 MeasuredFrom(items, parseFloat(query.latitude).val,
                              parseFloat(query.longitude).val)
           /\ (both /\ ~numbers) => Unranked(items)
           /\ (~both /\ stored) =>
                 MeasuredFrom(items, user.location.latitude,
                              user.location.longitude)
           /\ (~both /\ ~stored) => Unranked(items)

\* a user with a stored location 5 km away asks with coordinates of their
\* own: the pharmacy 2 km from the query point is measured at 2 km
C16_Witness ==
    /\ Fetched
    /\ query.latitude = Str(<<"3", "0">>)
    /\ query.longitude = Str(<<"3", "1">>)
    /\ user = Customer(Far)
    /\ Len(searchResults.data) = 2
    /\ searchResults.data[1].location = Near
    /\ searchResults.data[1].distance = Num(200)

\* the items are in distance order and the page is cut from that order
RankedResult ==
    /\ ops = <<FindAllOp(ActiveFilter)>>
    /\ \A i \in 1..Len(searchResults.data) :
          searchResults.data[i].distance # NoValue
    /\ DistanceOrdered(searchResults.data)
    /\ TiesInInputOrder(searchResults.data)
    /\ pagination.set =>
          IsWindow(pagination.data, searchResults.data, 1, 10)

\* C17 as stated: if either the latitude or the longitude is present and
\* numerically valid, ranking is active and sort and order are ignored.
C17_EitherCoordinateRanks ==
    (Fetched /\ (Numeric(query.latitude) \/ Numeric(query.longitude))) =>
        RankedResult

\* C17: if the latitude and the longitude are both present in the request
\* and numerically valid, ranking is active: the items are in distance
\* order whatever sort field and direction the request names.
C17_BothCoordinatesRank ==
    (Fetched /\ Numeric(query.latitude) /\ Numeric(query.longitude)) =>
        RankedResult

\* an anonymous request with both coordinates and sort=createdAt,
\* order=desc gets the nearer, older record first
C17_Witness ==
    /\ Fetched
    /\ Numeric(query.latitude) /\ Numeric(query.longitude)
    /\ ~user.present
    /\ query.order = Word("desc")
    /\ Len(db) = 2
    /\ db[1].location = Near /\ db[2].location = Far
    /\ Ids(searchResults.data) = <<1, 2>>

-----------------------------------------------------------------------------
(* Properties of failures, defaults and roles *)

\* C18: when a read of the collection fails during a listing request, no
\* second read is issued, and the one response is a failure: success is
\* false, the status is 500, and it carries no items and no pagination.
C18_ReadFailureAnsweredOnce ==
    (pc = "done" /\ err = "db") =>
        /\ ops = <<FindAllOp(ActiveFilter)>>
        /\ res.sent
        /\ res.hasSuccess /\ ~res.success
        /\ res.statusCode = 500
        /\ res.medicines = <<>>
        /\ ~res.hasPagination

\* C19: in the server-side strategy an absent order parameter means
\* descending, and an absent sort parameter means the creation time.
C19_DefaultsNewestFirst ==
    (pc # "paginate" /\ ~searchResults.set /\ ops # <<>>) =>
        /\ ~query.order.present => ops[1].order = -1
        /\ ~query.sort.present => ops[1].sortBy = "createdAt"

\* C20: on every pharmacy-only route an authenticated requester of role
\* pharmacy passes the role check and reaches the handlers behind it, and
\* a requester of any other role is answered 403 and never reaches them.
C20_PharmacyOnly ==
    (route \in PharmacyRoutes /\ user.present) =>
        IF user.role = "pharmacy"
        THEN pc = "done" => (res.statusCode # 403 /\ res.statusCode # 401)
        ELSE /\ pc \in {"authorize", "done"}
             /\ pc = "done" => res.statusCode = 403

-----------------------------------------------------------------------------
(* Properties of the changing catalogue *)

\* the reply a controller sent last
LastReply == log[Len(log)]

\* ids of the records of the collection that are active
ActiveIds(coll) == {coll[i].id : i \in {j \in 1..Len(coll) : coll[j].isActive}}

IdSet(seq) == {seq[i].id : i \in 1..Len(seq)}

\* C21: whatever creates, updates, activations and deactivations came
\* before, the public listing fetches exactly the records that are active
\* when it reads, every record it returns has isActive true and is one of
\* those it fetched, and get-by-id answers 200 for a record that is active
\* and 404 for one that is not
C21_OnlyActiveReturned ==
    [][/\ (~searchResults.set /\ searchResults'.set)
             => IdSet(searchResults'.data) = ActiveIds(db)
       /\ (res'.sent /\ res'.success)
             => \A i \in 1..Len(res'.medicines) :
                   /\ res'.medicines[i].isActive
                   /\ res'.medicines[i].id \in IdSet(searchResults'.data)
       /\ (log' # <<>> /\ LastReply'.op = "get")
             => /\ LastReply'.statusCode \in {200, 404}
                /\ LastReply'.statusCode = 200 <=> LastReply'.id \in ActiveIds(db')
      ]_vars

\* a record was deactivated and then asked for: the answer was 404, and the
\* listing read after that returned its page without it
C21_Witness ==
    /\ Len(log) = 2
    /\ log[1].op = "deactivate" /\ log[1].statusCode = 200
    /\ log[2] = Reply("get", log[1].id, 404)
    /\ log[1].id \in IdSet(db) \ ActiveIds(db)
    /\ pc = "done" /\ res.success
    /\ res.medicines # <<>>
    /\ IdSet(searchResults.data) = ActiveIds(db)

-----------------------------------------------------------------------------
(* Properties of the auth router *)

\* the two addresses are the same up to the case of their letters
SameAddress(e1, e2) ==
    Len(e1) = Len(e2) /\ \A i \in 1..Len(e1) : Fold(e1[i]) = Fold(e2[i])

\* request n is a signup that has been answered
SignupAnswered(n) == signups[n].kind = "signup" /\ signups[n].stage = "done"

\* the body of request n names an allowed role, or none, and every
\* required field
WellFormedSignup(n) ==
    signups[n].role \in {"", "customer", "pharmacy"} /\ signups[n].fields = "complete"

\* no account came from request n
CreatedNothing(n) == \A i \in 1..Len(users) : users[i].origin # n

\* no two accounts hold the same address, and no two signups for the same
\* address were both answered 201
OneAccountPerEmail ==
    /\ \A i, j \in 1..Len(users) :
          SameAddress(users[i].email, users[j].email) => i = j
    /\ \A n, m \in 1..Len(signups) :
          /\ SignupAnswered(n) /\ signups[n].statusCode = 201
          /\ SignupAnswered(m) /\ signups[m].statusCode = 201
          /\ SameAddress(signups[n].email, signups[m].email)
          => n = m

\* C22 as stated: every signup whose address belonged to a user when it
\* was received is answered 400 'Email already registered' and creates no
\* user, and at most one user is ever created for an address
C22_TakenEmailRegistered ==
    /\ \A n \in 1..Len(signups) :
          SignupAnswered(n) /\ signups[n].taken
          => /\ signups[n].statusCode = 400
             /\ signups[n].message = "Email already registered"
             /\ CreatedNothing(n)
    /\ OneAccountPerEmail

\* C22, amended: a signup that names an allowed role and every required
\* field, and whose address belonged to a user when it was received, is
\* answered 400 'Email already registered'; no signup for a taken address
\* creates a user; at most one user is ever created for an address,
\* however the signups are interleaved
C22_ValidTakenEmailRegistered ==
    /\ \A n \in 1..Len(signups) :
          SignupAnswered(n) /\ signups[n].taken
          => /\ signups[n].statusCode = 400
             /\ WellFormedSignup(n) => signups[n].message = "Email already registered"
             /\ CreatedNothing(n)
    /\ OneAccountPerEmail

\* a signup created an account and a later signup for the same address,
\* in the other case, was answered 'Email already registered'
C22_Witness ==
    \E n, m \in 1..Len(signups) :
       /\ SignupAnswered(n) /\ signups[n].statusCode = 201
       /\ \E i \in 1..Len(users) : users[i].origin = n
       /\ SignupAnswered(m) /\ signups[m].taken /\ WellFormedSignup(m)
       /\ signups[m].email # signups[n].email
       /\ SameAddress(signups[m].email, signups[n].email)
       /\ signups[m].statusCode = 400
       /\ signups[m].message = "Email already registered"
       /\ CreatedNothing(m)

\* request n is an add-admin request made with the token of an admin
ByAdmin(n) == signups[n].kind = "addAdmin" /\ signups[n].requester.role = "admin"

-----------------------------------------------------------------------------
(* Properties of concurrent listing requests *)

\* what the public listing yields for the running request when it is the
\* only one: its filter, its materialized sequence, its page
OwnFilter ==
    IF Searching THEN WithSearch(ActiveFilter, trim(query.search.chars))
                 ELSE ActiveFilter

OwnSequence ==
    IF Ranked THEN GeoRank(Find(db, OwnFilter), userLat.val, userLon.val)
              ELSE Find(db, OwnFilter)

OwnPage == slice(OwnSequence, skip, skip + limit)

\* C24: however two listing requests are interleaved over a collection
\* that does not change, the filter, the search result with its distances,
\* the pagination value and the Page Result of the running request are
\* those it yields when served alone, and a step changes the parked request
\* only by parking the running one as it is
C24_RequestsIndependent ==
    /\ [](/\ baseQuery.set => baseQuery.filter \in {ActiveFilter, OwnFilter}
          /\ searchResults.set
                => searchResults.data = OwnSequence /\ baseQuery.filter = OwnFilter
          /\ pagination.set
                => /\ pagination.data = OwnPage
                   /\ pagination.pagination = Meta(Len(OwnSequence))
          /\ (res.sent /\ res.success)
                => /\ res.medicines = OwnPage
                   /\ res.count = Len(OwnPage)
                   /\ res.hasPagination
                   /\ res.pagination = Meta(Len(OwnSequence)))
    /\ [][parked' # parked => parked' = <<Saved>>]_vars

\* both requests were answered, one with its records ranked and one with
\* the second page of one record
C24_Witness ==
    /\ pc = "done" /\ res.success
    /\ Ranked /\ Len(res.medicines) = 2
    /\ res.medicines[1].distance.kind = "num"
    /\ parked # <<>>
    /\ parked[1].pc = "done" /\ parked[1].res.success
    /\ parked[1].query.page = Str(<<"2">>)
    /\ Len(parked[1].res.medicines) = 1
    /\ parked[1].res.medicines[1].distance.kind = "undefined"
    /\ parked[1].res.medicines[1].id = res.medicines[1].id

-----------------------------------------------------------------------------
(* Properties of the distance function *)

\* the distance attached to a record is the one measured from the record
\* to the requester
MeasuredBack(rec, lat, lon) ==
    LET back == calculateDistance(rec.location.latitude, rec.location.longitude,
                                  lat, lon)
    IN IF rec.distance.kind = "num" THEN rec.distance.val = toFixed2(back)
                                    ELSE back = 0

\* C25: for the requester's position and the place of every pharmacy, the
\* distance is the same in both directions and is 0 from a point to
\* itself, and the distance the ranking attached to a record, measured from
\* the requester, is the distance from the record to the requester
C25_DistanceSymmetric ==
    Ranked =>
       /\ calculateDistance(userLat.val, userLon.val, userLat.val, userLon.val) = 0
       /\ \A i \in 1..Len(db) :
             LET at == db[i].location
             IN /\ calculateDistance(userLat.val, userLon.val,
                                     at.latitude, at.longitude)
                      = calculateDistance(at.latitude, at.longitude,
                                          userLat.val, userLon.val)
                /\ calculateDistance(at.latitude, at.longitude,
                                     at.latitude, at.longitude) = 0
       /\ Fetched =>
             \A i \in 1..Len(searchResults.data) :
                MeasuredBack(searchResults.data[i], userLat.val, userLon.val)

\* a pharmacy to the south-west of the requester and one at the
\* requester's own position have been measured
C25_Witness ==
    /\ Ranked /\ Fetched
    /\ \E i, j \in 1..Len(searchResults.data) :
          LET far == searchResults.data[i]
              same == searchResults.data[j]
          IN /\ far.location.latitude < userLat.val
             /\ far.location.longitude < userLon.val
             /\ far.distance.kind = "num" /\ far.distance.val > 0
             /\ same.location = Loc(userLat.val, userLon.val)
             /\ same.distance.kind = "null"

-----------------------------------------------------------------------------
(* Properties of the two strategies *)

\* how many operations of a kind the request has issued
Issued(kind) == Cardinality({k \in 1..Len(ops) : ops[k].op = kind})

\* paginate has run for the request
Paginated == pc \in {"controller", "done"} /\ pagination.set

\* C26: a request paginated in memory has issued exactly one fetch, an
\* unpaged one, and no count; its sequence is that fetch, ranked when
\* ranking is active, and its page is a slice of that sequence.  A request
\* paginated by the server has issued exactly one fetch and exactly one
\* count, both over the filter of the request, and its page and its total
\* are what those two reads return, in whichever order they settle
C26_ReadsPerStrategy ==
    /\ (Paginated /\ searchResults.set)
          => /\ Issued("find") = 1 /\ Issued("count") = 0
             /\ \A k \in 1..Len(ops) :
                   ~ops[k].paged /\ ops[k].filter = baseQuery.filter
             /\ searchResults.data
                   = IF Ranked
                     THEN GeoRank(Find(db, baseQuery.filter), userLat.val, userLon.val)
                     ELSE Find(db, baseQuery.filter)
             /\ pagination.data = slice(searchResults.data, skip, skip + limit)
    /\ (Paginated /\ ~searchResults.set)
          => /\ Issued("find") = 1 /\ Issued("count") = 1
             /\ \A k \in 1..Len(ops) :
                   /\ ops[k].filter = baseQuery.filter
                   /\ ops[k].op = "find" => ops[k].paged
             /\ pagination.pagination.totalItems = countDocuments(db, baseQuery.filter)
             /\ \E sorted \in SortedOrders(Find(db, baseQuery.filter), sortBy, order) :
                   pagination.data = SkipLimit(sorted, skip, limit)

\* a ranked request was paginated in memory after its one fetch
C26_Witness ==
    /\ Paginated /\ searchResults.set /\ Ranked
    /\ Len(searchResults.data) = 2 /\ Len(pagination.data) = 1
    /\ ops = <<FindAllOp(ActiveFilter)>>

-----------------------------------------------------------------------------
(* Properties of the middleware chain *)

ListingRoutes == {"list", "pharmacyList"}

\* the handlers of the chain in the order the routes name them, and the
\* error handler behind each of them
ChainOrder ==
    { <<"base", "search">>, <<"search", "paginate">>, <<"paginate", "controller">>,
      <<"controller", "done">>,
      <<"search", "error">>, <<"paginate", "error">>, <<"controller", "error">>,
      <<"error", "done">> }

InChain(stage) == stage \in {"base", "search", "paginate", "controller", "error"}

\* the response is the controller's success / the error handler's failure
ControllerSuccess ==
    res.sent /\ res.hasSuccess /\ res.success /\ res.statusCode = 200

HandlerFailure ==
    res.sent /\ ~res.hasSuccess /\ ~res.success /\ res.statusCode = 500

\* a stage hands over only in chain order, to the next stage when it has
\* no error and to the error handler when it has one; the controller
\* issues no read of its own; a response is sent once and by the
\* controller or the error handler only
ChainStep ==
    /\ (InChain(pc) /\ pc' # pc)
          => /\ <<pc, pc'>> \in ChainOrder
             /\ pc' = "error" <=> (pc # "error" /\ err' # "none")
    /\ pc = "controller" => ops' = ops
    /\ res.sent => res' = res
    /\ (InChain(pc) /\ res' # res) => (pc \in {"controller", "error"} /\ pc' = "done")

\* in every state of the chain: the controller finds req.pagination set,
\* and no stage but the error handler runs once there is an error
ChainState ==
    /\ pc = "controller" => pagination.set
    /\ (InChain(pc) /\ err # "none") => pc = "error"
    /\ InChain(pc) => ~res.sent

\* C27 as stated: on the listing routes the chain runs in order, each stage
\* only after the one before it called next() without an error, the
\* controller finds req.pagination set and never runs its fallback query,
\* and every request is answered by exactly one of the controller's
\* success and the error handler's failure
C27_EveryListingAnsweredByChain ==
    /\ [](route \in ListingRoutes
             => /\ ChainState
                /\ pc = "done" => (ControllerSuccess /\ err = "none")
                                     \/ (HandlerFailure /\ err # "none"))
    /\ [][(route \in ListingRoutes) => ChainStep]_vars

\* C27, amended: the same for every request that the handlers before the
\* chain passed on to the base filter; a request they did not pass on is
\* a request to the pharmacy listing answered 401 or 403 by them
C27_ChainAnswersWhatEntersIt ==
    /\ [](route \in ListingRoutes
             => /\ ChainState
                /\ (pc = "done" /\ baseQuery.set)
                      => (ControllerSuccess /\ err = "none")
                            \/ (HandlerFailure /\ err # "none")
                /\ (pc = "done" /\ ~baseQuery.set)
                      => /\ route = "pharmacyList"
                         /\ res.sent /\ res.statusCode \in {401, 403}
                         /\ ops = <<>>)
    /\ [][(route \in ListingRoutes) => ChainStep]_vars

\* a request to the public listing went through the chain and was
\* answered by the controller from req.pagination with its one read
C27_Witness ==
    /\ route = "list" /\ pc = "done"
    /\ ControllerSuccess /\ res.hasPagination
    /\ pagination.set /\ res.medicines = pagination.data
    /\ res.medicines # <<>>
    /\ Len(ops) = 1


-----------------------------------------------------------------------------
(* Properties of a listing beside writes *)

\* the items a page holds when the total, the page and the page size are
\* those of the metadata
ItemsOnPage(meta) ==
    Min(meta.itemsPerPage,
        Max(0, meta.totalItems - (meta.currentPage - 1) * meta.itemsPerPage))

\* C28: while records are created, updated, activated and deactivated
\* beside the listing request, the sequence it fetched is the content of
\* the collection at the one moment of its read, the items and the total
\* of its response are both taken from that sequence, and for page >= 1 and
\* pageSize >= 1 the number of items is
\* min(itemsPerPage, max(0, totalItems - (currentPage - 1) * itemsPerPage))
C28_OneSnapshot ==
    /\ []((pc = "done" /\ res.success)
             => /\ res.hasPagination
                /\ Len(ops) = 1
                /\ res.pagination.totalItems = Len(searchResults.data)
                /\ res.medicines = slice(searchResults.data, skip, skip + limit)
                /\ (res.pagination.currentPage >= 1 /\ res.pagination.itemsPerPage >= 1)
                      => Len(res.medicines) = ItemsOnPage(res.pagination))
    /\ [][(~searchResults.set /\ searchResults'.set)
             => IdSet(searchResults'.data) = ActiveIds(db) /\ db' = db]_vars

\* the second page of one record was answered from a read of two records,
\* and a record was deactivated after that read
C28_Witness ==
    /\ pc = "done" /\ res.success
    /\ res.pagination.currentPage = 2 /\ res.pagination.totalItems = 2
    /\ Len(res.medicines) = 1
    /\ log # <<>> /\ LastReply = Reply("deactivate", res.medicines[1].id, 200)
    /\ Len(Find(db, ActiveFilter)) = 1


-----------------------------------------------------------------------------
(* Properties of a walk through the pages *)

\* the pages one after the other
RECURSIVE Concat(_)
Concat(seqs) ==
    IF seqs = <<>> THEN <<>> ELSE Head(seqs) \o Concat(Tail(seqs))

\* the records taken up to and including the page just sent
TakenSoFar == Concat(Append(pages, res.medicines))

\* C29: with a page size >= 1, the pages 1..totalPages taken in order from
\* the materialized sequence are each non-empty and concatenate to the
\* sequence itself: what has been taken after page k is the sequence's
\* first records in sequence order, k - 1 pages lie before page k, and
\* after the last page everything has been taken
C29_PagesConcatenate ==
    (pc = "done" /\ res.success /\ res.pagination.itemsPerPage >= 1)
       => /\ Len(pages) = res.pagination.currentPage - 1
          /\ Len(TakenSoFar) <= Len(searchResults.data)
          /\ TakenSoFar = SubSeq(searchResults.data, 1, Len(TakenSoFar))
          /\ \A k \in 1..Len(pages) : pages[k] # <<>>
          /\ res.pagination.currentPage <= res.pagination.totalPages
                => res.medicines # <<>>
          /\ res.pagination.currentPage >= res.pagination.totalPages
                => TakenSoFar = searchResults.data

\* three records were taken in two pages of two, the last page half full
C29_Witness ==
    /\ pc = "done" /\ res.success
    /\ res.pagination.itemsPerPage = 2
    /\ res.pagination.currentPage = 2 /\ res.pagination.totalPages = 2
    /\ Len(pages) = 1 /\ Len(pages[1]) = 2 /\ Len(res.medicines) = 1
    /\ TakenSoFar = searchResults.data


-----------------------------------------------------------------------------
(* Properties of the listing response body *)

\* C30: in every successful listing response count is the number of
\* records in medicines, and when the page and the page size of its
\* metadata are >= 1 that number is at most itemsPerPage and at most
\* totalItems
C30_CountIsNumberOfMedicines ==
    (pc = "done" /\ res.sent /\ res.success)
       => /\ res.count = Len(res.medicines)
          /\ (/\ res.hasPagination
              /\ res.pagination.currentPage >= 1
              /\ res.pagination.itemsPerPage >= 1)
                => /\ res.count <= res.pagination.itemsPerPage
                   /\ res.count <= res.pagination.totalItems

\* a full first page of two records out of three
C30_Witness ==
    /\ pc = "done" /\ res.sent /\ res.success /\ res.hasPagination
    /\ res.pagination.currentPage = 1
    /\ res.pagination.itemsPerPage = 2
    /\ res.pagination.totalItems = 3
    /\ res.count = 2 /\ Len(res.medicines) = 2

=============================================================================
